---- MODULE Spec2Model ----
(***************************************************************************)
(* Monitoring worker of wb-monitor-bot: the due-track scheduler, the       *)
(* change detector, the alert log used for deduplication, the failure      *)
(* counter that pauses a track, and the per-cycle database transaction     *)
(* with one SAVEPOINT per track.                                           *)
(*                                                                         *)
(* Time is counted in minutes.  A nullable column holds << >> (None) or    *)
(* <<v>> (the value v).  _hash_event is a SHA-256 digest; it is modelled   *)
(* as the triple it digests, i.e. it is taken to be collision free.        *)
(***************************************************************************)
EXTENDS Integers, Sequences, FiniteSets, TLC

VARIABLES
    clock,      \* wall clock, datetime.now(UTC), in minutes
    users,      \* monitor_users rows: user id -> [plan, pro_expires_at]
    tracks,     \* committed monitor_tracks rows: track id -> row
    alerts,     \* committed monitor_alerts_log rows
    pc,         \* worker position: "idle" (before run_cycle), "cycle" (in it) or
                \* "expiry" (after it, before the expiry pass)
    now,        \* run_cycle's local `now`
    todo,       \* due tracks of the running cycle not yet processed
    sess,       \* the cycle's session: the track objects it loaded, as modified
    frozen,     \* history: the tracks that were paused or deleted when the cycle began
    dirty,      \* tracks with flushed, uncommitted UPDATEs in the cycle's transaction
    sessAlerts, \* alert rows flushed in the cycle's transaction, uncommitted
    sessSnapshots, \* snapshot rows added in the cycle's transaction, uncommitted
    last,       \* the last step taken and what it did (observation)
    userOps,    \* number of user operations (pause, resume, delete) so far
    hist,       \* history: per (track, event) the time of the last send
    okHist,     \* history: the same, for sends of successful checks of committed cycles
    cycSent,    \* history: sends of the successful checks of the running cycle
    fin,        \* input of a pure function under check
    fout,       \* its result
    heartbeat,  \* WorkerStateRD.last_ok as stored in Redis: None or [ts, written]
    last_expiry_check \* start_worker's local: the date of the last expiry pass

vars == <<clock, users, tracks, alerts, pc, now, todo, sess, frozen, dirty, sessAlerts, sessSnapshots,
          last, userOps, hist, okHist, cycSent, fin, fout, heartbeat, last_expiry_check>>

---------------------------------------------------------------------------
(* Program constants *)

ERROR_LIMIT == 5

WITHIN_HOURS == 24

FREE_INTERVAL_MIN == 360

PRO_INTERVAL_MIN == 60

\* _WORKER_TTL, in minutes
WORKER_TTL_MIN == 60

(* Bounds of the model *)

MaxNow == 3240

MaxErrors == 6

MaxUserOps == 2

TickSteps == {1440}

Tracks == {1, 2}

UserIds == {1, 2}

\* the tracks whose product page can make fetch_product raise
Flaky == {1}

\* the prices the product of track t is sold at
Prices(t) == IF t = 1 THEN {1750, 2000} ELSE {2000}

NULL == << >>

Some(v) == <<v>>

---------------------------------------------------------------------------
(* Pure functions of the worker and the repository *)

\* timedelta(hours=h) on the minute clock
Hours(h) == h * 60

\* PriceDropPercent rounding the percent up instead of truncating it
PriceDropPercentCeil(old, new) ==
    IF old = NULL \/ new = NULL THEN 0
    ELSE IF old[1] <= 0 \/ new[1] >= old[1] THEN 0
    ELSE ((old[1] - new[1]) * 100 + old[1] - 1) \div old[1]

\* worker._price_drop_percent
PriceDropPercent(old, new) ==
    IF old = NULL \/ new = NULL THEN 0
    ELSE IF old[1] <= 0 \/ new[1] >= old[1] THEN 0
    ELSE ((old[1] - new[1]) * 100) \div old[1]

\* worker._hash_event
HashEvent(track_id, kind, payload) == <<track_id, kind, payload>>

\* worker._msg: the rendered text, as its template key and arguments
Msg(key, nums, strs) == [kind |-> key, nums |-> nums, strs |-> strs]

\* The size names of the products, in the order of Python's string comparison
SizeNames == <<"L", "M", "XL">>

\* The position of a size name in that order
SizeRank(x) == CHOOSE i \in 1..Len(SizeNames) : SizeNames[i] = x

\* sorted(set) of size names: the sequence of the elements of S in ascending order
RECURSIVE SortedSeq(_)
SortedSeq(S) ==
    IF S = {} THEN << >>
    ELSE LET m == CHOOSE x \in S : \A y \in S : SizeRank(x) <= SizeRank(y)
         IN <<m>> \o SortedSeq(S \ {m})

SeqToSet(s) == {s[i] : i \in 1..Len(s)}

\* AppearedSizes without the restriction to the watched sizes
AppearedSizesUnwatched(watched, prev, curr) == curr \ prev

\* run_cycle, line 130: watched & curr - prev (the difference binds tighter)
AppearedSizes(watched, prev, curr) == watched \cap (curr \ prev)

\* run_cycle, line 131: watched & prev - curr
GoneSizes(watched, prev, curr) == watched \cap (prev \ curr)

\* BackInStock with an unknown previous state taken as out of stock
BackInStockFromUnknown(t, snap) ==
    t.watch_stock /\ t.last_in_stock # Some(TRUE) /\ snap.in_stock

\* run_cycle, line 104: `t.watch_stock and t.last_in_stock is False and snap.in_stock`
BackInStock(t, snap) ==
    t.watch_stock /\ t.last_in_stock = Some(FALSE) /\ snap.in_stock

\* QtyChanged without the test of the plan
QtyChangedAnyPlan(t, plan, snap) ==
    /\ t.watch_qty /\ t.last_qty # NULL
    /\ snap.total_qty # NULL /\ t.last_qty # snap.total_qty

\* run_cycle, lines 107-113: the condition of the quantity event
QtyChanged(t, plan, snap) ==
    /\ plan = "pro" /\ t.watch_qty /\ t.last_qty # NULL
    /\ snap.total_qty # NULL /\ t.last_qty # snap.total_qty

\* run_cycle, the detection part: the events of one check, in message order
DetectEvents(t, plan, snap) ==
    LET target ==
            IF t.target_price # NULL /\ snap.price # NULL
               /\ snap.price[1] <= t.target_price[1]
            THEN << Msg("price_target", <<snap.price, t.target_price>>, << >>) >>
            ELSE << >>
        drop == PriceDropPercent(t.last_price, snap.price)
        dropEv ==
            IF t.target_drop_percent # NULL /\ t.target_drop_percent # Some(0)
               /\ drop >= t.target_drop_percent[1]
            THEN << Msg("price_drop", <<Some(drop), t.last_price, snap.price>>, << >>) >>
            ELSE << >>
        stock ==
            IF BackInStock(t, snap)
            THEN << Msg("in_stock", << >>, << >>) >>
            ELSE << >>
        qty ==
            IF QtyChanged(t, plan, snap)
            THEN << Msg("stock_changed", <<t.last_qty, snap.total_qty>>,
                        << IF snap.total_qty[1] > t.last_qty[1] THEN "up" ELSE "down" >>) >>
            ELSE << >>
        watched == SeqToSet(t.watch_sizes)
        prev == IF t.last_sizes = NULL THEN {} ELSE SeqToSet(t.last_sizes[1])
        curr == SeqToSet(snap.sizes)
        appeared == SortedSeq(AppearedSizes(watched, prev, curr))
        gone == SortedSeq(GoneSizes(watched, prev, curr))
        sizesEv ==
            IF t.watch_sizes # << >>
            THEN (IF appeared # << >> THEN << Msg("sizes_appeared", << >>, appeared) >> ELSE << >>)
                 \o (IF gone # << >> THEN << Msg("sizes_gone", << >>, gone) >> ELSE << >>)
            ELSE << >>
    IN target \o dropEv \o stock \o qty \o sizesEv

\* LoadedTracks without the WHERE clause
LoadedTracksUnfiltered(rows) == DOMAIN rows

\* repository.due_tracks_python_safe, lines 559-563: the rows the SELECT loads
LoadedTracks(rows) ==
    { t \in DOMAIN rows : rows[t].is_active /\ ~rows[t].is_deleted }

\* DueTracks with the comparison made strict
DueTracksStrict(rows, at) ==
    { t \in LoadedTracks(rows) :
        \/ rows[t].last_checked_at = NULL
        \/ rows[t].last_checked_at[1] < at - rows[t].check_interval_min }

\* repository.due_tracks_python_safe
DueTracks(rows, at) ==
    { t \in LoadedTracks(rows) :
        \/ rows[t].last_checked_at = NULL
        \/ rows[t].last_checked_at[1] <= at - rows[t].check_interval_min }

\* IsDuplicateEvent with the window's bound excluded
IsDuplicateEventStrict(log, track_id, event_hash, at) ==
    \E e \in log :
        /\ e.track_id = track_id
        /\ e.event_hash = event_hash
        /\ e.sent_at > at - Hours(WITHIN_HOURS)

\* repository.is_duplicate_event, on the rows `log` the session can see
IsDuplicateEvent(log, track_id, event_hash, at) ==
    \E e \in log :
        /\ e.track_id = track_id
        /\ e.event_hash = event_hash
        /\ e.sent_at >= at - Hours(WITHIN_HOURS)

---------------------------------------------------------------------------
(* The session of one cycle *)

\* repository.log_event: the AlertLogModel object added to the session (pending)
LogEvent(track_id, event_type, event_hash) ==
    [track_id |-> track_id, event_type |-> event_type, event_hash |-> event_hash]

\* Session flush of the pending AlertLogModel objects: the INSERT takes sent_at from
\* the column default (the time of the flush) and raises IntegrityError when
\* uq_monitor_alert_event_hash already holds the hash.
Flush(st, at) ==
    IF \E p \in st.pending : \E e \in st.log : e.event_hash = p.event_hash
    THEN [st EXCEPT !.raised = TRUE, !.cause = "integrity"]
    ELSE [st EXCEPT
            !.log = @ \cup { [track_id |-> p.track_id, event_type |-> p.event_type,
                              event_hash |-> p.event_hash, sent_at |-> at] : p \in st.pending },
            !.pending = {}]

\* run_cycle, the loop over the detected events (from index i on).  failAt is the
\* index of the event whose bot.send_message raises (0: none does).  The SELECT of
\* is_duplicate_event autoflushes the session first; the exit of the begin_nested
\* block flushes what is left.
RECURSIVE NotifyLoop(_, _, _, _, _, _)
NotifyLoop(track_id, events, i, failAt, st, at) ==
    IF i > Len(events) THEN Flush(st, at)
    ELSE
        LET f == Flush(st, at)
            h == HashEvent(track_id, "event", events[i])
        IN  IF f.raised THEN f
            ELSE IF IsDuplicateEvent(f.log, track_id, h, at)
            THEN NotifyLoop(track_id, events, i + 1, failAt, f, at)
            ELSE
                LET logged == [f EXCEPT !.pending = @ \cup {LogEvent(track_id, "event", h)}]
                IN  IF i = failAt
                    THEN [logged EXCEPT !.raised = TRUE, !.cause = "send"]
                    ELSE NotifyLoop(track_id, events, i + 1, failAt,
                                    [logged EXCEPT !.sent = Append(@, events[i]),
                                                   !.notified = TRUE], at)

\* run_cycle, lines 162-169: the track after a successful check
CheckedTrack(t, snap, notified, at) ==
    [t EXCEPT !.last_price = snap.price,
              !.last_in_stock = Some(snap.in_stock),
              !.last_qty = snap.total_qty,
              !.last_sizes = Some(snap.sizes),
              !.last_checked_at = Some(at),
              !.last_notified_at = IF notified THEN Some(at) ELSE @,
              !.error_count = 0]

\* PausesTrack with the threshold passed instead of reached
PausesTrackLate(t) == t.error_count + 1 > ERROR_LIMIT /\ t.is_active

\* run_cycle, lines 174-175: whether the failed check of track object t pauses it
PausesTrack(t) == t.error_count + 1 >= ERROR_LIMIT /\ t.is_active

\* FailedTrack with the failed check counted as a check that took place
FailedTrackChecked(t) ==
    [t EXCEPT !.error_count = @ + 1,
              !.is_active = IF PausesTrack(t) THEN FALSE ELSE @,
              !.last_checked_at = Some(now)]

\* run_cycle, lines 174-176: the track after a failed check
FailedTrack(t) ==
    [t EXCEPT !.error_count = @ + 1,
              !.is_active = IF PausesTrack(t) THEN FALSE ELSE @]

\* AfterPauseNotify with the failure of the send leaving the begin_nested block of
\* lines 173-190, which rolls the block's changes back
AfterPauseNotifyRaises(entered, failed, sendFails) ==
    IF sendFails THEN entered ELSE failed

\* run_cycle, lines 177-190: the track after the pause notification; the failure
\* of the send is logged and the track stays as the failed check left it
AfterPauseNotify(entered, failed, sendFails) == failed

\* SavepointRollback leaving the objects as the block had changed them
SavepointRollbackKeeps(entered, reached) == reached

\* SavepointRollback as a rollback of the whole transaction
FullRollback(entered, reached) == [t \in DOMAIN entered |-> tracks[t]]

\* The exit of the begin_nested block by an exception: ROLLBACK TO SAVEPOINT leaves
\* the session's objects as they were when the block was entered.
SavepointRollback(entered, reached) == entered

\* CommittedRow as an UPDATE of every column from the object as loaded
CommittedRowAllColumns(row, obj) == obj

\* The UPDATE a flush issues for a modified track object writes the columns the
\* worker assigned; is_active is among them only when the worker paused the track.
CommittedRow(row, obj) ==
    [obj EXCEPT !.is_active = IF obj.is_active THEN row.is_active ELSE FALSE,
                !.is_deleted = row.is_deleted,
                !.check_interval_min = row.check_interval_min]

---------------------------------------------------------------------------
(* History *)

SentKeys(t, sent) == { <<t, sent[i]>> : i \in 1..Len(sent) }

HistAfter(h, keys, at) ==
    [k \in DOMAIN h \cup keys |-> IF k \in keys THEN at ELSE h[k]]

\* the keys sent at `at` that h records as sent at most 24 hours before
Resent(h, keys, at) ==
    { k \in keys : k \in DOMAIN h /\ at - h[k] <= Hours(24) }

Step(op, t) ==
    [op |-> op, track |-> t, fetch |-> "-", events |-> << >>, sent |-> << >>, cause |-> "-",
     outcome |-> "-", pause |-> 0, errBefore |-> 0, activeBefore |-> FALSE,
     pauseFailed |-> FALSE, stale |-> FALSE, resent |-> {}, okResent |-> {}]

---------------------------------------------------------------------------
(* Initial state *)

\* The snapshots the marketplace can return for the product of track t
Snapshots(t) ==
    [price : {Some(p) : p \in Prices(t)}, in_stock : {TRUE}, total_qty : {NULL},
     sizes : {<< >>}]

\* What fetch_product can do for the product of track t
Fetches(t) ==
    { [res |-> x, snap |-> CHOOSE s \in Snapshots(t) : TRUE] :
        x \in IF t \in Flaky THEN {"raise", "none"} ELSE {"none"} }
    \cup { [res |-> "snap", snap |-> s] : s \in Snapshots(t) }

\* repository.create_track: a track as created from its first snapshot; the targets
\* are those the user has set since
NewTrack(user_id, interval, target_price, target_drop_percent, at) ==
    [user_id |-> user_id,
     target_price |-> target_price, target_drop_percent |-> target_drop_percent,
     watch_stock |-> TRUE, watch_qty |-> FALSE, watch_sizes |-> << >>,
     is_active |-> TRUE, is_deleted |-> FALSE,
     check_interval_min |-> interval, error_count |-> 0,
     last_price |-> Some(2000), last_in_stock |-> Some(TRUE), last_qty |-> NULL,
     last_sizes |-> Some(<< >>),
     last_checked_at |-> Some(at), last_notified_at |-> NULL]

\* Two tracks created at time 0, seen one free-tier interval later: track 1 of a
\* free user, with the given targets, and track 2 of a pro user, without targets.
InitWorker(target_price, target_drop_percent) ==
    /\ clock = FREE_INTERVAL_MIN
    /\ users = [u \in UserIds |->
                   IF u = 1
                   THEN [plan |-> "free", pro_expires_at |-> NULL]
                   ELSE [plan |-> "pro", pro_expires_at |-> Some(Hours(24))]]
    /\ tracks = [t \in Tracks |->
                    IF t = 1
                    THEN NewTrack(1, FREE_INTERVAL_MIN, target_price, target_drop_percent, 0)
                    ELSE NewTrack(2, PRO_INTERVAL_MIN, NULL, NULL, 0)]
    /\ alerts = {}
    /\ pc = "idle"
    /\ now = clock
    /\ todo = {}
    /\ sess = << >>
    /\ frozen = {}
    /\ dirty = {}
    /\ sessAlerts = {}
    /\ sessSnapshots = {}
    /\ last = Step("other", 0)
    /\ userOps = 0
    /\ hist = << >>
    /\ okHist = << >>
    /\ cycSent = << >>
    /\ heartbeat = NULL
    /\ last_expiry_check = NULL

Init ==
    /\ InitWorker(Some(1750), Some(10))
    /\ fin = << >>
    /\ fout = << >>

---------------------------------------------------------------------------
(* Actions *)

\* Time passes (the loop's sleep, a slow call, the process being down).  Redis
\* drops the worker state key when its TTL is over.
Tick ==
    /\ \E d \in TickSteps :
        /\ clock + d <= MaxNow
        /\ clock' = clock + d
    /\ heartbeat' = IF heartbeat # NULL /\ clock' - heartbeat[1].written >= WORKER_TTL_MIN
                     THEN NULL ELSE heartbeat
    /\ last' = Step("other", 0)
    /\ UNCHANGED <<users, tracks, alerts, pc, now, todo, sess, frozen, dirty, sessAlerts, sessSnapshots,
                   userOps, hist, okHist, cycSent, fin, fout, last_expiry_check>>

\* run_cycle, lines 64-66: open the session and select the due tracks
BeginCycle ==
    /\ pc = "idle"
    /\ pc' = "cycle"
    /\ now' = clock
    /\ sess' = [t \in LoadedTracks(tracks) |-> tracks[t]]
    /\ frozen' = Tracks \ LoadedTracks(tracks)
    /\ todo' = DueTracks(tracks, clock)
    /\ dirty' = {}
    /\ sessAlerts' = {}
    /\ sessSnapshots' = {}
    /\ cycSent' = << >>
    /\ last' = Step("begin", 0)
    /\ UNCHANGED <<clock, users, tracks, alerts, userOps, hist, okHist, fin, fout, heartbeat, last_expiry_check>>

\* run_cycle, lines 68-190: the loop body for one due track.  fetch is what
\* fetch_product does (it raises, returns None or returns a snapshot), failAt the
\* index of the event whose send raises (0: none), pauseFails whether the send of
\* the pause notification raises.
CheckTrackBody(t, fetch, failAt, pauseFails) ==
    /\ pc = "cycle"
    /\ t \in todo
    /\ sess[t].error_count < MaxErrors
    /\ todo' = todo \ {t}
    /\ LET obj == sess[t]
           plan == users[obj.user_id].plan
           events == IF fetch.res = "snap" THEN DetectEvents(obj, plan, fetch.snap)
                     ELSE << >>
           st0 == [log |-> alerts \cup sessAlerts, pending |-> {}, sent |-> << >>,
                   raised |-> FALSE, cause |-> "-", notified |-> FALSE]
           r == IF fetch.res = "raise" THEN [st0 EXCEPT !.raised = TRUE, !.cause = "fetch"]
                ELSE IF fetch.res = "none" THEN st0
                ELSE NotifyLoop(t, events, 1, failAt, st0, clock)
           keys == SentKeys(t, r.sent)
           obs == [Step("check", t) EXCEPT
                      !.fetch = fetch.res,
                      !.events = events,
                      !.cause = r.cause,
                      !.sent = r.sent,
                      !.errBefore = obj.error_count,
                      !.activeBefore = obj.is_active,
                      !.resent = Resent(hist, keys, clock),
                      !.stale = \E i \in 1..Len(events) : \E e \in alerts \cup sessAlerts :
                                    /\ e.event_hash = HashEvent(t, "event", events[i])
                                    /\ e.sent_at < clock - Hours(24)]
       IN  /\ hist' = HistAfter(hist, keys, clock)
           /\ IF fetch.res = "none"
              THEN \* line 75: continue
                   /\ last' = [obs EXCEPT !.outcome = "skipped"]
                   /\ UNCHANGED <<sess, dirty, sessAlerts, sessSnapshots, cycSent>>
              ELSE IF ~r.raised
              THEN \* the begin_nested block is released
                   /\ sess' = [sess EXCEPT ![t] = CheckedTrack(obj, fetch.snap, r.notified, now)]
                   /\ dirty' = dirty \cup {t}
                   /\ sessAlerts' = r.log \ alerts
                   /\ sessSnapshots' = sessSnapshots \cup
                          {[track_id |-> t, price_current |-> fetch.snap.price]}
                   /\ cycSent' = HistAfter(cycSent, keys, clock)
                   /\ last' = [obs EXCEPT !.outcome = "ok"]
              ELSE \* the SAVEPOINT is rolled back, then lines 171-190
                   /\ LET reached == [sess EXCEPT ![t] = CheckedTrack(obj, fetch.snap,
                                                                      r.notified, now)]
                          back == SavepointRollback(sess, reached)
                      IN  sess' = [back EXCEPT ![t] =
                                      AfterPauseNotify(back[t], FailedTrack(back[t]),
                                                       PausesTrack(back[t]) /\ pauseFails)]
                   /\ dirty' = dirty \cup {t}
                   /\ last' = [obs EXCEPT !.outcome = "failed",
                                          !.pause = IF sess'[t].is_active # obj.is_active
                                                    THEN 1 ELSE 0,
                                          !.pauseFailed = PausesTrack(obj) /\ pauseFails]
                   /\ UNCHANGED <<sessAlerts, sessSnapshots, cycSent>>
    /\ UNCHANGED <<clock, users, tracks, alerts, pc, now, frozen, userOps, okHist,
                   fin, heartbeat, last_expiry_check>>

CheckTrack(t, fetch, failAt, pauseFails) ==
    /\ CheckTrackBody(t, fetch, failAt, pauseFails)
    /\ UNCHANGED fout

\* run_cycle, lines 192-195: commit of the cycle's transaction, then the heartbeat.
\* hbFails: the Redis call of set_heartbeat raises (after the commit).
Commit(hbFails) ==
    /\ pc = "cycle"
    /\ todo = {}
    /\ heartbeat' = IF hbFails THEN heartbeat
                     ELSE Some([ts |-> now, written |-> clock])
    /\ tracks' = [t \in Tracks |->
                    IF t \in dirty THEN CommittedRow(tracks[t], sess[t]) ELSE tracks[t]]
    /\ alerts' = alerts \cup sessAlerts
    /\ pc' = "expiry"
    /\ dirty' = {}
    /\ sessAlerts' = {}
    /\ sessSnapshots' = {}
    /\ sess' = << >>
    /\ okHist' = [k \in DOMAIN okHist \cup DOMAIN cycSent |->
                     IF k \in DOMAIN cycSent THEN cycSent[k] ELSE okHist[k]]
    /\ cycSent' = << >>
    /\ last' = [Step("commit", 0) EXCEPT
                   !.okResent = { k \in DOMAIN cycSent :
                                    k \in DOMAIN okHist
                                    /\ cycSent[k] - okHist[k] <= Hours(24) }]
    /\ UNCHANGED <<clock, users, now, todo, frozen, userOps, hist, fin, fout,
                   last_expiry_check>>

\* Abort with the heartbeat written all the same
AbortWithHeartbeat ==
    /\ pc = "cycle"
    /\ pc' = "expiry"
    /\ todo' = {}
    /\ dirty' = {}
    /\ sessAlerts' = {}
    /\ sessSnapshots' = {}
    /\ sess' = << >>
    /\ cycSent' = << >>
    /\ heartbeat' = Some([ts |-> now, written |-> clock])
    /\ last' = Step("abort", 0)
    /\ UNCHANGED <<clock, users, tracks, alerts, now, frozen, userOps, hist, okHist,
                   fin, fout, last_expiry_check>>

\* The cycle ends without its commit: the worker task is cancelled, or an exception
\* leaves run_cycle (start_worker logs it); closing the session rolls back.
Abort ==
    /\ pc = "cycle"
    /\ pc' = "expiry"
    /\ todo' = {}
    /\ dirty' = {}
    /\ sessAlerts' = {}
    /\ sessSnapshots' = {}
    /\ sess' = << >>
    /\ cycSent' = << >>
    /\ last' = Step("abort", 0)
    /\ UNCHANGED <<clock, users, tracks, alerts, now, frozen, userOps, hist, okHist,
                   fin, fout, heartbeat, last_expiry_check>>

\* ToggleTrackActive with a resume that also clears the error count
ToggleTrackActiveReset(t, is_active) ==
    /\ t \notin dirty
    /\ tracks[t].is_active # is_active
    /\ userOps < MaxUserOps
    /\ userOps' = userOps + 1
    /\ tracks' = [tracks EXCEPT ![t].is_active = is_active,
                                ![t].error_count = IF is_active THEN 0 ELSE @]
    /\ last' = Step("other", 0)
    /\ UNCHANGED <<clock, users, alerts, pc, now, todo, sess, frozen, dirty, sessAlerts, sessSnapshots,
                   hist, okHist, cycSent, fin, fout, heartbeat, last_expiry_check>>

\* repository.toggle_track_active, committed by wb_pause_cb / wb_resume_cb.  The
\* UPDATE waits for the row lock while the cycle holds an uncommitted UPDATE of it.
ToggleTrackActive(t, is_active) ==
    /\ t \notin dirty
    /\ tracks[t].is_active # is_active
    /\ userOps < MaxUserOps
    /\ userOps' = userOps + 1
    /\ tracks' = [tracks EXCEPT ![t].is_active = is_active]
    /\ last' = Step("other", 0)
    /\ UNCHANGED <<clock, users, alerts, pc, now, todo, sess, frozen, dirty, sessAlerts, sessSnapshots,
                   hist, okHist, cycSent, fin, fout, heartbeat, last_expiry_check>>

\* repository.delete_track, committed by wb_remove_yes_cb
DeleteTrack(t) ==
    /\ t \notin dirty
    /\ ~tracks[t].is_deleted
    /\ userOps < MaxUserOps
    /\ userOps' = userOps + 1
    /\ tracks' = [tracks EXCEPT ![t].is_deleted = TRUE, ![t].is_active = FALSE]
    /\ last' = Step("other", 0)
    /\ UNCHANGED <<clock, users, alerts, pc, now, todo, sess, frozen, dirty, sessAlerts, sessSnapshots,
                   hist, okHist, cycSent, fin, fout, heartbeat, last_expiry_check>>

\* repository.expire_pro_users: the users whose pro plan has run out
ExpiredUsers(rows, at) ==
    { u \in DOMAIN rows : /\ rows[u].plan = "pro"
                          /\ rows[u].pro_expires_at # NULL
                          /\ rows[u].pro_expires_at[1] < at }

\* repository.expire_pro_users in the transaction of the expiry pass
ExpireProUsers ==
    /\ users' = [u \in UserIds |->
                    IF u \in ExpiredUsers(users, clock)
                    THEN [plan |-> "free", pro_expires_at |-> NULL]
                    ELSE users[u]]
    /\ tracks' = [t \in Tracks |->
                     IF tracks[t].user_id \in ExpiredUsers(users, clock)
                     THEN [tracks[t] EXCEPT !.check_interval_min = FREE_INTERVAL_MIN]
                     ELSE tracks[t]]

\* now_naive.date()
Date(at) == at \div Hours(24)

\* ExpiryPass with the date recorded although the pass raised
ExpiryPassMarksFailure(raises) ==
    /\ pc = "expiry"
    /\ pc' = "idle"
    /\ IF last_expiry_check = Some(Date(clock))
       THEN /\ ~raises
            /\ last' = Step("expiry_skip", 0)
            /\ UNCHANGED <<users, tracks, last_expiry_check>>
       ELSE IF raises
       THEN /\ last' = Step("expiry_raise", 0)
            /\ last_expiry_check' = Some(Date(clock))
            /\ UNCHANGED <<users, tracks>>
       ELSE /\ ExpireProUsers
            /\ last_expiry_check' = Some(Date(clock))
            /\ last' = Step("expiry", 0)
    /\ UNCHANGED <<clock, alerts, now, todo, sess, frozen, dirty, sessAlerts, sessSnapshots,
                   userOps, hist, okHist, cycSent, fin, fout, heartbeat>>

\* start_worker, lines 217-232: the expiry pass after run_cycle, whether that
\* returned or raised.  raises: the pass raises (its transaction is rolled back).
ExpiryPass(raises) ==
    /\ pc = "expiry"
    /\ pc' = "idle"
    /\ IF last_expiry_check = Some(Date(clock))
       THEN /\ ~raises
            /\ last' = Step("expiry_skip", 0)
            /\ UNCHANGED <<users, tracks, last_expiry_check>>
       ELSE IF raises
       THEN /\ last' = Step("expiry_raise", 0)
            /\ UNCHANGED <<users, tracks, last_expiry_check>>
       ELSE /\ ExpireProUsers
            /\ last_expiry_check' = Some(Date(clock))
            /\ last' = Step("expiry", 0)
    /\ UNCHANGED <<clock, alerts, now, todo, sess, frozen, dirty, sessAlerts, sessSnapshots,
                   userOps, hist, okHist, cycSent, fin, fout, heartbeat>>

\* The commit and the expiry pass when neither Redis nor the pass's transaction fails
CommitOk == Commit(FALSE)

ExpiryOk == ExpiryPass(FALSE)

DoCommit == \E hbFails \in BOOLEAN : Commit(hbFails)

DoExpiry == \E raises \in BOOLEAN : ExpiryPass(raises)

DoCheck ==
    \E t \in Tracks : \E fetch \in Fetches(t), failAt \in 0..2, pauseFails \in BOOLEAN :
        CheckTrack(t, fetch, failAt, pauseFails)

DoToggle == \E t \in Tracks, a \in BOOLEAN : ToggleTrackActive(t, a)

DoDelete == \E t \in Tracks : DeleteTrack(t)

\* The worker alone, with Redis and the expiry pass working
Next ==
    \/ Tick
    \/ BeginCycle
    \/ DoCheck
    \/ CommitOk
    \/ Abort
    \/ ExpiryOk

Spec == Init /\ [][Next]_vars

\* The worker and the users' pause, resume and delete buttons, on tracks that have
\* no price targets set
InitUser ==
    /\ InitWorker(NULL, NULL)
    /\ fin = << >>
    /\ fout = << >>

NextUser ==
    \/ Tick
    \/ BeginCycle
    \/ DoCheck
    \/ CommitOk
    \/ Abort
    \/ ExpiryOk
    \/ DoToggle
    \/ DoDelete

SpecUser == InitUser /\ [][NextUser]_vars

\* The worker loop with every failure of the cycle, of the heartbeat write and of
\* the expiry pass, on tracks that have no price targets set
InitLoop ==
    /\ InitWorker(NULL, NULL)
    /\ fin = << >>
    /\ fout = << >>

NextLoop ==
    \/ Tick
    \/ BeginCycle
    \/ DoCheck
    \/ DoCommit
    \/ Abort
    \/ DoExpiry

SpecLoop == InitLoop /\ [][NextLoop]_vars

---------------------------------------------------------------------------
(* due_tracks_python_safe as a function of the rows and of `now` *)

DueLastChecked == {NULL, Some(0), Some(1), Some(300)}

DueIntervals == {PRO_INTERVAL_MIN, FREE_INTERVAL_MIN}

DueNows == {60, 359, 360, 361}

DueRows ==
    { [NewTrack(1, i, NULL, NULL, 0) EXCEPT !.is_active = a, !.is_deleted = d,
                                             !.last_checked_at = c] :
        i \in DueIntervals, a \in BOOLEAN, d \in BOOLEAN, c \in DueLastChecked }

InitDue ==
    /\ InitWorker(NULL, NULL)
    /\ fin \in [rows : [Tracks -> DueRows], now : DueNows]
    /\ fout = << >>

ApplyDue ==
    /\ fout = << >>
    /\ fout' = << DueTracks(fin.rows, fin.now) >>
    /\ UNCHANGED <<clock, users, tracks, alerts, pc, now, todo, sess, frozen, dirty,
                   sessAlerts, sessSnapshots, last, userOps, hist, okHist, cycSent, fin, heartbeat,
                   last_expiry_check>>

NextDue == ApplyDue

SpecDue == InitDue /\ [][NextDue]_vars

---------------------------------------------------------------------------
(* search_similar_cheaper (wb_client.py).  A token is the sequence of its   *)
(* characters; a Cyrillic letter is written "cyr_<latin name>".  Prices are *)
(* whole numbers of kopecks (salePriceU), as is max_price.  What            *)
(* _tokenize, _detect_gender and _extract_model_tokens make of a product's  *)
(* text is a field of the product.                                          *)

\* _MIN_CHARACTERISTICS_MATCH_PERCENT
MIN_CHARACTERISTICS_MATCH_PERCENT == 50

\* len(SEARCH_WB_URLS) * len(range(1, 3)): the requests of one keyword search
SEARCH_REQUESTS == 4

\* len(range(1, 3)): the pages read of one catalog category
CATALOG_PAGES == 2

\* _CYRILLIC_RE, on the letters used below
CYRILLIC == {"cyr_ch", "cyr_e", "cyr_h", "cyr_o", "cyr_l", "cyr_s", "cyr_t", "cyr_k",
             "cyr_m", "cyr_u", "cyr_zh", "cyr_n", "cyr_i", "cyr_j"}

LATIN == {"a", "b", "c", "e", "f", "g", "h", "i", "l", "m", "n", "o", "p", "r", "s", "u", "w",
          "x", "y"}

DIGITS == {"1", "5"}

T_iphone == <<"i", "p", "h", "o", "n", "e">>

T_iphones == <<"i", "p", "h", "o", "n", "e", "s">>

T_15 == <<"1", "5">>

T_pro == <<"p", "r", "o">>

T_galaxy == <<"g", "a", "l", "a", "x", "y">>

T_case == <<"c", "a", "s", "e">>

T_chehol == <<"cyr_ch", "cyr_e", "cyr_h", "cyr_o", "cyr_l">>

T_usb == <<"u", "s", "b">>

T_steklo == <<"cyr_s", "cyr_t", "cyr_e", "cyr_k", "cyr_l", "cyr_o">>

\* A literal model token, "sa-15": _MODEL_TOKEN_RE wants two or more runs of at least
\* two letters or digits joined by hyphens (it holds a hyphen, which no token of
\* _tokenize does)
M_a15 == <<"s", "a", "-", "1", "5">>

\* _GENERIC_PRODUCT_TOKENS, _TYPE_TOKENS and _ECOSYSTEM_TOKENS, on the tokens above
GENERIC_PRODUCT_TOKENS == {T_chehol, T_usb}

TYPE_TOKENS == {T_case}

ECOSYSTEM_TOKENS == [apple |-> {T_iphone}, samsung |-> {T_galaxy}]

\* _tokenize, line 283: the words kept as tokens (no stop word is among the words
\* used here)
TokenKept(word) ==
    /\ Len(word) >= 3
    /\ ~(\A i \in 1..Len(word) : word[i] \in DIGITS)

\* _characteristic_tokens of a text given as its normalised words (none of them a
\* gender word)
CharacteristicTokens(words) == { word \in words : TokenKept(word) }

Max(a, b) == IF a >= b THEN a ELSE b

Min(a, b) == IF a <= b THEN a ELSE b

\* _normalize_match_percent
NormalizeMatchPercent(value) ==
    IF value = NULL THEN MIN_CHARACTERISTICS_MATCH_PERCENT
    ELSE Max(10, Min(95, value[1]))

\* _is_cyrillic_token
IsCyrillicToken(token) == \E i \in 1..Len(token) : token[i] \in CYRILLIC

\* _tokens_match with the rule of Latin tokens applied to every token
TokensMatchShortPrefix(left, right) ==
    IF left = right THEN TRUE
    ELSE Len(left) >= 4 /\ Len(right) >= 4 /\ SubSeq(left, 1, 4) = SubSeq(right, 1, 4)

\* _tokens_match
TokensMatch(left, right) ==
    IF left = right THEN TRUE
    ELSE IF IsCyrillicToken(left) \/ IsCyrillicToken(right)
    THEN Len(left) >= 6 /\ Len(right) >= 6 /\ SubSeq(left, 1, 6) = SubSeq(right, 1, 6)
    ELSE Len(left) >= 4 /\ Len(right) >= 4 /\ SubSeq(left, 1, 4) = SubSeq(right, 1, 4)

\* _match_count
MatchCount(base_tokens, candidate_tokens) ==
    IF base_tokens = {} \/ candidate_tokens = {} THEN 0
    ELSE Cardinality({ token \in base_tokens :
                         \E candidate \in candidate_tokens : TokensMatch(token, candidate) })

\* _match_percent (the float product truncates to the floor of the quotient for
\* every count up to 40 tokens)
MatchPercent(base_tokens, candidate_tokens) ==
    IF base_tokens = {} THEN 0
    ELSE (MatchCount(base_tokens, candidate_tokens) * 100) \div Cardinality(base_tokens)

\* _overlap_score
OverlapScore(left, right) ==
    IF left = {} \/ right = {} THEN 0
    ELSE Cardinality({ l \in left : \E r \in right : TokensMatch(l, r) })

\* _is_latin_or_digit_token
IsLatinOrDigitToken(token) == \E i \in 1..Len(token) : token[i] \in LATIN \cup DIGITS

\* _anchor_tokens
AnchorTokens(tokens) == tokens \ GENERIC_PRODUCT_TOKENS

\* The strong anchors counted by _required_anchor_matches and strong_anchor_count
StrongAnchors(anchor_tokens) == { token \in anchor_tokens : IsLatinOrDigitToken(token) }

\* _required_anchor_matches without the rule of lines 369-370
RequiredAnchorMatchesStrongOnly(anchor_tokens) ==
    IF anchor_tokens = {} THEN 0
    ELSE IF Cardinality(StrongAnchors(anchor_tokens)) >= 2 THEN 2
    ELSE 1

\* _required_anchor_matches
RequiredAnchorMatches(anchor_tokens) ==
    IF anchor_tokens = {} THEN 0
    ELSE IF Cardinality(StrongAnchors(anchor_tokens)) >= 2 THEN 2
    ELSE IF Cardinality(anchor_tokens) >= 4 THEN 2
    ELSE 1

\* _detect_ecosystem (the dict is read in its order of definition)
DetectEcosystem(tokens) ==
    IF tokens \cap ECOSYSTEM_TOKENS.apple # {} THEN Some("apple")
    ELSE IF tokens \cap ECOSYSTEM_TOKENS.samsung # {} THEN Some("samsung")
    ELSE NULL

\* _is_ecosystem_compatible
IsEcosystemCompatible(base_ecosystem, candidate_tokens) ==
    \/ base_ecosystem = NULL
    \/ DetectEcosystem(candidate_tokens) = NULL
    \/ DetectEcosystem(candidate_tokens) = base_ecosystem

\* _model_tokens_compatible without the shortcut of lines 305-306
ModelTokensCompatibleNonEmpty(base_model_tokens, candidate_model_tokens, candidate_tokens) ==
    \/ base_model_tokens \cap candidate_model_tokens # {}
    \/ base_model_tokens \cap candidate_tokens # {}

\* _model_tokens_compatible
ModelTokensCompatible(base_model_tokens, candidate_model_tokens, candidate_tokens) ==
    \/ base_model_tokens = {}
    \/ base_model_tokens \cap candidate_model_tokens # {}
    \/ base_model_tokens \cap candidate_tokens # {}

\* _extract_price on the product's salePriceU, which is a number of kopecks
\* (kind "num"), absent or of another type ("none"), or a JSON boolean ("bool"):
\* isinstance(True, (int, float)) holds and Decimal(str(True)) raises
\* InvalidOperation
ExtractPrice(sale_price) ==
    IF sale_price.kind = "bool" THEN [raised |-> TRUE, price |-> NULL]
    ELSE IF sale_price.kind = "num" THEN [raised |-> FALSE, price |-> Some(sale_price.v)]
    ELSE [raised |-> FALSE, price |-> NULL]

\* PriceRejected with max_price itself let through
PriceRejectedAbove(price, max_price) == price = NULL \/ price[1] > max_price

\* The price gate of both sources: `price is None or price >= max_price`
PriceRejected(price, max_price) == price = NULL \/ price[1] >= max_price

\* The locals of _search_similar_all_sources computed from the reference
BaseBrandTokens(ref) ==
    IF ref.base_brand_tokens # {} /\ MatchCount(ref.base_brand_tokens, ref.base_tokens) > 0
    THEN ref.base_brand_tokens ELSE {}

BaseTypeTokens(ref) == ref.base_tokens \cap TYPE_TOKENS

StrictMatchPercent(ref) == NormalizeMatchPercent(ref.match_percent_threshold)

RelaxedMatchPercent(ref) == Max(20, StrictMatchPercent(ref) - 15)

MinimalMatchPercent(ref) == Max(10, StrictMatchPercent(ref) - 30)

\* relaxed_anchor_matches and minimal_anchor_matches (the same expression)
RelaxedAnchorMatches(ref) ==
    LET anchors == AnchorTokens(ref.base_tokens)
    IN  IF Cardinality(StrongAnchors(anchors)) >= 2
        THEN RequiredAnchorMatches(anchors)
        ELSE Max(1, RequiredAnchorMatches(anchors) - 1)

\* The keyword arguments of the four collect_pass calls
PassParams(ref, pass) ==
    IF pass = 1 THEN
        [min_match_percent |-> StrictMatchPercent(ref),
         enforce_gender |-> TRUE,
         min_relevance |-> IF Cardinality(ref.base_tokens) >= 3 THEN 2 ELSE 1,
         required_anchor_matches |-> RequiredAnchorMatches(AnchorTokens(ref.base_tokens)),
         require_model_tokens |-> TRUE]
    ELSE IF pass = 2 THEN
        [min_match_percent |-> RelaxedMatchPercent(ref),
         enforce_gender |-> FALSE,
         min_relevance |-> 1,
         required_anchor_matches |-> RelaxedAnchorMatches(ref),
         require_model_tokens |-> TRUE]
    ELSE IF pass = 3 THEN
        [min_match_percent |-> MinimalMatchPercent(ref),
         enforce_gender |-> FALSE,
         min_relevance |-> 0,
         required_anchor_matches |-> RelaxedAnchorMatches(ref),
         require_model_tokens |-> TRUE]
    ELSE
        [min_match_percent |-> MinimalMatchPercent(ref),
         enforce_gender |-> FALSE,
         min_relevance |-> 0,
         required_anchor_matches |-> Max(0, RelaxedAnchorMatches(ref) - 1),
         require_model_tokens |-> FALSE]

\* AnchorRejected with one anchor match less required
AnchorRejectedBelow(base_anchor_tokens, required_anchor_matches, candidate_tokens) ==
    /\ required_anchor_matches > 0
    /\ MatchCount(base_anchor_tokens, candidate_tokens) < required_anchor_matches - 1

\* The anchor gate of both sources
AnchorRejected(base_anchor_tokens, required_anchor_matches, candidate_tokens) ==
    /\ required_anchor_matches > 0
    /\ MatchCount(base_anchor_tokens, candidate_tokens) < required_anchor_matches

\* The gates of both sources that follow the price gate, in the order of the code;
\* catalog: the relevance gate of _search_similar_with_catalog applies
AcceptedAfterPrice(ref, pp, p, catalog) ==
    /\ ~(pp.enforce_gender /\ ref.base_gender # NULL
         /\ p.gender # NULL /\ p.gender # ref.base_gender)
    /\ IsEcosystemCompatible(DetectEcosystem(ref.base_tokens), p.tokens)
    /\ ~(pp.require_model_tokens
         /\ ~ModelTokensCompatible(ref.base_model_tokens, p.model_tokens, p.tokens))
    /\ ~(BaseBrandTokens(ref) # {} /\ p.brand # {}
         /\ MatchCount(BaseBrandTokens(ref), p.brand) = 0)
    /\ ~AnchorRejected(AnchorTokens(ref.base_tokens), pp.required_anchor_matches, p.tokens)
    /\ ~(BaseTypeTokens(ref) # {} /\ MatchCount(BaseTypeTokens(ref), p.tokens) = 0)
    /\ ~(pp.min_match_percent > 0
         /\ MatchPercent(ref.base_tokens, p.tokens) < pp.min_match_percent)
    /\ ~(catalog /\ OverlapScore(ref.base_tokens, p.title_tokens) < Max(0, pp.min_relevance))

\* The loop over the products of one response, from index i on.  st holds the
\* source's locals: similar (the accepted items), seen_ids, and whether the loop
\* raised.
RECURSIVE ProcessProducts(_, _, _, _, _, _)
ProcessProducts(products, i, st, ref, pp, catalog) ==
    IF i > Len(products) \/ st.raised THEN st
    ELSE
        LET p == products[i]
            skip == ProcessProducts(products, i + 1, st, ref, pp, catalog)
        IN  IF p.id = NULL THEN skip
            ELSE IF p.id[1] \in st.seen_ids \/ p.id[1] = ref.exclude_wb_item_id THEN skip
            ELSE IF ref.base_subject_id # NULL /\ p.subject # NULL
                    /\ p.subject # ref.base_subject_id THEN skip
            ELSE IF ExtractPrice(p.sale_price).raised THEN [st EXCEPT !.raised = TRUE]
            ELSE IF PriceRejected(ExtractPrice(p.sale_price).price, ref.max_price) THEN skip
            ELSE IF ~AcceptedAfterPrice(ref, pp, p, catalog) THEN skip
            ELSE ProcessProducts(products, i + 1,
                    [st EXCEPT
                        !.similar = Append(@, [wb_item_id |-> p.id[1],
                                               price |-> p.sale_price.v,
                                               relevance |-> OverlapScore(ref.base_tokens,
                                                                          p.title_tokens)]),
                        !.seen_ids = @ \cup {p.id[1]}],
                    ref, pp, catalog)

\* list.sort(key=lambda p: p.price): a stable sort by price
RECURSIVE SortByPrice(_)
SortByPrice(s) ==
    IF s = << >> THEN << >>
    ELSE LET x == s[Len(s)]
             head == SortByPrice(SubSeq(s, 1, Len(s) - 1))
             n == Cardinality({ i \in 1..Len(head) : head[i].price <= x.price })
         IN  SubSeq(head, 1, n) \o <<x>> \o SubSeq(head, n + 1, Len(head))

\* candidates.sort(key=lambda x: (x[1].price, -x[0])): by price, then by relevance
\* downwards
RECURSIVE SortByPriceRelevance(_)
SortByPriceRelevance(s) ==
    IF s = << >> THEN << >>
    ELSE LET x == s[Len(s)]
             head == SortByPriceRelevance(SubSeq(s, 1, Len(s) - 1))
             n == Cardinality({ i \in 1..Len(head) :
                                  \/ head[i].price < x.price
                                  \/ head[i].price = x.price
                                     /\ head[i].relevance >= x.relevance })
         IN  SubSeq(head, 1, n) \o <<x>> \o SubSeq(head, n + 1, Len(head))

\* s[:n]
Take(s, n) ==
    IF n >= 0 THEN SubSeq(s, 1, Min(n, Len(s))) ELSE SubSeq(s, 1, Max(0, Len(s) + n))

\* collect_pass: `for item in by_...: if item.wb_item_id in seen_ids: continue ...`
RECURSIVE Merge(_, _, _)
Merge(combined, items, i) ==
    IF i > Len(items) THEN combined
    ELSE IF \E j \in 1..Len(combined) : combined[j].wb_item_id = items[i].wb_item_id
         THEN Merge(combined, items, i + 1)
         ELSE Merge(Append(combined, items[i]), items, i + 1)

SeenIds(combined) == { combined[j].wb_item_id : j \in 1..Len(combined) }

---------------------------------------------------------------------------
(* search_similar_cheaper as a state machine: fin holds the arguments of    *)
(* the call, fout the locals of _search_similar_all_sources while the call  *)
(* runs and its result when it is over.                                     *)

Product(id, sale_price, tokens, gender, model_tokens) ==
    [id |-> id, sale_price |-> sale_price, tokens |-> tokens, title_tokens |-> tokens,
     gender |-> gender, model_tokens |-> model_tokens, brand |-> {}, subject |-> NULL]

Kopecks(n) == [kind |-> "num", v |-> n]

P_full == Product(Some(1), Kopecks(90000), {T_iphone, T_pro}, NULL, {M_a15})

P_half == Product(Some(2), Kopecks(80000), {T_iphones}, NULL, {M_a15})

P_female == Product(Some(3), Kopecks(70000), {T_iphone, T_pro}, Some("female"), {})

P_reference == Product(Some(7), Kopecks(10000), {T_iphone, T_pro}, NULL, {M_a15})

P_at_max == Product(Some(4), Kopecks(100000), {T_iphone, T_pro}, NULL, {M_a15})

P_no_price == Product(Some(5), [kind |-> "none", v |-> 0], {T_iphone, T_pro}, NULL, {M_a15})

P_bool_price == Product(Some(6), [kind |-> "bool", v |-> 0], {T_iphone, T_pro}, NULL, {M_a15})

P_full_again == Product(Some(1), Kopecks(85000), {T_iphone, T_pro}, NULL, {M_a15})

P_no_id == Product(NULL, Kopecks(50000), {T_iphone, T_pro}, NULL, {M_a15})

P_galaxy == Product(Some(8), Kopecks(60000), {T_galaxy, T_pro}, NULL, {M_a15})

\* What one request can bring: no JSON object (timeout, connection error, status
\* other than 200, a body that is not an object) or a list of products
SimResponses ==
    { [ok |-> FALSE, products |-> << >>],
      [ok |-> TRUE, products |-> << >>],
      [ok |-> TRUE, products |-> <<P_full>>],
      [ok |-> TRUE, products |-> <<P_half>>],
      [ok |-> TRUE, products |-> <<P_female>>],
      [ok |-> TRUE, products |-> <<P_full, P_half, P_female>>],
      [ok |-> TRUE, products |-> <<P_reference, P_at_max, P_no_price, P_no_id, P_galaxy,
                                   P_full_again>>],
      [ok |-> TRUE, products |-> <<P_bool_price>>] }

\* The menu request: it fails, it brings no category that shares a token with the
\* reference, or it brings one
MenuResponses == {"fail", "nomatch", "match"}

SimLimits == {0, 1, 2}

SimThresholds == {NULL, Some(10), Some(100)}

SimRefs ==
    [base_tokens : { CharacteristicTokens(words) :
                        words \in {{T_iphone, T_15, T_pro}, {T_iphone, T_chehol}, {T_15}} },
     base_model_tokens : {{}, {M_a15}},
     base_gender : {NULL, Some("male")},
     base_brand_tokens : {{}},
     base_subject_id : {NULL},
     match_percent_threshold : SimThresholds,
     limit : SimLimits,
     max_price : {100000},
     exclude_wb_item_id : {7}]

\* FinishCall without the sort
FinishCallUnsorted(f, ref) ==
    [f EXCEPT !.pc = "done", !.result = Some(Take(f.combined, ref.limit))]

\* `combined.sort(key=lambda p: p.price); return combined[:limit]`
FinishCall(f, ref) ==
    [f EXCEPT !.pc = "done", !.result = Some(Take(SortByPrice(f.combined), ref.limit))]

\* The end of the call by an exception
RaiseCall(f) == [f EXCEPT !.pc = "done", !.raised = TRUE]

\* EnterPass: the call of collect_pass for pass k, up to its first request.
\* AfterPass: what follows the return of collect_pass for pass k.
RECURSIVE EnterPass(_, _, _)
RECURSIVE AfterPass(_, _, _)
\* AfterPass going on to the next pass whatever the passes before brought
AfterPassAlways(f, ref, k) ==
    IF k < 3 THEN EnterPass(f, ref, k + 1)
    ELSE IF k = 3 THEN IF ref.base_model_tokens # {}
                       THEN EnterPass(f, ref, 4)
                       ELSE FinishCall(f, ref)
    ELSE FinishCall(f, ref)

EnterPass(f, ref, k) ==
    IF Len(f.combined) >= ref.limit THEN AfterPass([f EXCEPT !.pass = k], ref, k)
    ELSE [f EXCEPT !.pass = k, !.pc = "search", !.slot = 1, !.similar = << >>,
                   !.cat = NULL]

AfterPass(f, ref, k) ==
    IF k < 3 THEN IF f.combined = << >> THEN EnterPass(f, ref, k + 1)
                  ELSE FinishCall(f, ref)
    ELSE IF k = 3 THEN IF f.combined = << >> /\ ref.base_model_tokens # {}
                       THEN EnterPass(f, ref, 4)
                       ELSE FinishCall(f, ref)
    ELSE FinishCall(f, ref)

\* collect_pass after _search_similar_with_catalog has returned `similar`
AfterCatalog(f, ref, similar) ==
    LET by_catalog == Take(SortByPriceRelevance(similar), ref.limit - Len(f.combined))
        merged == Merge(f.combined, by_catalog, 1)
    IN  AfterPass([f EXCEPT !.combined = merged,
                            !.got[f.pass] = @ + Len(merged) - Len(f.combined),
                            !.similar = << >>,
                            !.cat = Some([@[1] EXCEPT !.items = by_catalog])], ref, f.pass)

\* History: the call of _search_similar_with_catalog of the current pass, with its
\* limit and skip_ids arguments, the ids its responses held and what it returned
CatalogCall(f, ref) ==
    [f EXCEPT !.cat = Some([limit |-> ref.limit - Len(f.combined),
                            skip_ids |-> SeenIds(f.combined),
                            offered |-> {}, items |-> << >>])]

\* The catalog source from its entry to its first request
EnterCatalog(f, ref) ==
    LET g == CatalogCall(f, ref)
    IN  IF g.menu = NULL THEN [g EXCEPT !.pc = "menu"]
        ELSE IF g.menu[1] = 0 THEN AfterCatalog(g, ref, << >>)
        ELSE [g EXCEPT !.pc = "catalog", !.slot = 1]

\* AfterSearch without the test of the limit before the catalog source
AfterSearchAlwaysCatalog(f, ref, similar) ==
    LET by_search == Take(SortByPrice(similar), ref.limit - Len(f.combined))
        merged == Merge(f.combined, by_search, 1)
        g == [f EXCEPT !.combined = merged,
                       !.got[f.pass] = @ + Len(merged) - Len(f.combined),
                       !.similar = << >>]
    IN  EnterCatalog(g, ref)

\* collect_pass after _search_similar_with_search has returned `similar`, up to the
\* first request of _search_similar_with_catalog
AfterSearch(f, ref, similar) ==
    LET by_search == Take(SortByPrice(similar), ref.limit - Len(f.combined))
        merged == Merge(f.combined, by_search, 1)
        g == [f EXCEPT !.combined = merged,
                       !.got[f.pass] = @ + Len(merged) - Len(f.combined),
                       !.similar = << >>]
    IN  IF Len(merged) >= ref.limit THEN AfterPass(g, ref, f.pass)
        ELSE EnterCatalog(g, ref)

\* History: the frame after a request was made in its pass (reqPasses: the passes
\* that made a request; offered: the ids of the products the responses held)
Requested(f, products) ==
    [f EXCEPT !.reqPasses = @ \cup {f.pass},
              !.offered = @ \cup { products[i].id[1] :
                                    i \in { j \in 1..Len(products) : products[j].id # NULL } }]

\* The source's locals when one more response is processed
SourceState(f) ==
    [similar |-> f.similar,
     seen_ids |-> SeenIds(f.combined) \cup SeenIds(f.similar),
     raised |-> FALSE]

\* The call begins: _search_similar_all_sources up to the first request
SimilarStart ==
    /\ fout = << >>
    /\ LET f0 == [pc |-> "search", pass |-> 1, slot |-> 1, similar |-> << >>,
                  combined |-> << >>, menu |-> NULL, reqPasses |-> {},
                  offered |-> {}, got |-> [k \in 1..4 |-> 0], raised |-> FALSE,
                  result |-> NULL, cat |-> NULL]
       IN  fout' = << IF fin.base_tokens = {}
                      THEN [f0 EXCEPT !.pc = "done", !.result = Some(<< >>)]
                      ELSE EnterPass(f0, fin, 1) >>
    /\ UNCHANGED <<clock, users, tracks, alerts, pc, now, todo, sess, frozen, dirty,
                   sessAlerts, sessSnapshots, last, userOps, hist, okHist, cycSent, fin, heartbeat,
                   last_expiry_check>>

\* One request of _search_similar_with_search and the loop over its products
SearchRequest(resp) ==
    /\ fout # << >>
    /\ fout[1].pc = "search"
    /\ LET f == Requested(fout[1], resp.products)
           pp == PassParams(fin, f.pass)
           st == ProcessProducts(resp.products, 1, SourceState(f), fin, pp, FALSE)
       IN  fout' = << IF st.raised THEN RaiseCall(f)
                      ELSE IF Len(st.similar) >= fin.limit - Len(f.combined)
                              \/ f.slot = SEARCH_REQUESTS
                      THEN AfterSearch(f, fin, st.similar)
                      ELSE [f EXCEPT !.similar = st.similar, !.slot = @ + 1] >>
    /\ UNCHANGED <<clock, users, tracks, alerts, pc, now, todo, sess, frozen, dirty,
                   sessAlerts, sessSnapshots, last, userOps, hist, okHist, cycSent, fin, heartbeat,
                   last_expiry_check>>

\* _load_catalog_categories when the menu is not cached, and the scoring of the
\* categories
MenuRequest(resp) ==
    /\ fout # << >>
    /\ fout[1].pc = "menu"
    /\ LET f == Requested(fout[1], << >>)
       IN  fout' = << IF resp = "fail" THEN AfterCatalog(f, fin, << >>)
                      ELSE IF resp = "nomatch"
                      THEN AfterCatalog([f EXCEPT !.menu = Some(0)], fin, << >>)
                      ELSE [f EXCEPT !.menu = Some(1), !.pc = "catalog", !.slot = 1] >>
    /\ UNCHANGED <<clock, users, tracks, alerts, pc, now, todo, sess, frozen, dirty,
                   sessAlerts, sessSnapshots, last, userOps, hist, okHist, cycSent, fin, heartbeat,
                   last_expiry_check>>

\* One page of the category in _search_similar_with_catalog and the loop over its
\* products (resp: what _fetch_catalog_products ends up with)
CatalogRequest(resp) ==
    /\ fout # << >>
    /\ fout[1].pc = "catalog"
    /\ LET r == Requested(fout[1], resp.products)
           ids == { resp.products[i].id[1] :
                       i \in { j \in 1..Len(resp.products) : resp.products[j].id # NULL } }
           f == [r EXCEPT !.cat = Some([@[1] EXCEPT !.offered = @ \cup ids])]
           pp == PassParams(fin, f.pass)
           st == ProcessProducts(resp.products, 1, SourceState(f), fin, pp, TRUE)
       IN  fout' = << IF resp.products = << >> THEN AfterCatalog(f, fin, f.similar)
                      ELSE IF st.raised THEN RaiseCall(f)
                      ELSE IF Len(st.similar) >= fin.limit - Len(f.combined)
                              \/ f.slot = CATALOG_PAGES
                      THEN AfterCatalog(f, fin, st.similar)
                      ELSE [f EXCEPT !.similar = st.similar, !.slot = @ + 1] >>
    /\ UNCHANGED <<clock, users, tracks, alerts, pc, now, todo, sess, frozen, dirty,
                   sessAlerts, sessSnapshots, last, userOps, hist, okHist, cycSent, fin, heartbeat,
                   last_expiry_check>>

DoSearchRequest == \E resp \in SimResponses : SearchRequest(resp)

DoMenuRequest == \E resp \in MenuResponses : MenuRequest(resp)

DoCatalogRequest == \E resp \in SimResponses : CatalogRequest(resp)

InitSimilar ==
    /\ InitWorker(NULL, NULL)
    /\ fin \in SimRefs
    /\ fout = << >>

NextSimilar ==
    \/ SimilarStart
    \/ DoSearchRequest
    \/ DoMenuRequest
    \/ DoCatalogRequest

SpecSimilar == InitSimilar /\ [][NextSimilar]_vars

\* All products of the responses
SimProducts == UNION { { r.products[i] : i \in 1..Len(r.products) } : r \in SimResponses }

---------------------------------------------------------------------------
(* The match thresholds of the passes as a function of the caller's         *)
(* match_percent_threshold                                                  *)

ThresholdInputs == {NULL} \cup { Some(v) : v \in (0 - 5)..110 }

InitThresholds ==
    /\ InitWorker(NULL, NULL)
    /\ fin \in [base_tokens : {{T_iphone, T_pro}},
                 base_model_tokens : {{M_a15}},
                 base_gender : {NULL},
                 base_brand_tokens : {{}},
                 base_subject_id : {NULL},
                 match_percent_threshold : ThresholdInputs,
                 limit : {1},
                 max_price : {100000},
                 exclude_wb_item_id : {7}]
    /\ fout = << >>

\* The min_match_percent arguments of the four collect_pass calls
ApplyThresholds ==
    /\ fout = << >>
    /\ fout' = << [k \in 1..4 |-> PassParams(fin, k).min_match_percent] >>
    /\ UNCHANGED <<clock, users, tracks, alerts, pc, now, todo, sess, frozen, dirty,
                   sessAlerts, sessSnapshots, last, userOps, hist, okHist, cycSent, fin, heartbeat,
                   last_expiry_check>>

NextThresholds == ApplyThresholds

SpecThresholds == InitThresholds /\ [][NextThresholds]_vars

---------------------------------------------------------------------------
(* The anchor-match counts of the passes as a function of the reference's    *)
(* characteristic tokens                                                     *)

\* The words of the reference texts
AnchorWords == {T_iphone, T_pro, T_galaxy, T_case, T_chehol, T_usb, T_steklo}

\* The references: every text with at least one characteristic token (a text
\* without one returns [] before any pass), with and without a literal model token
AnchorRefs ==
    [base_tokens : { CharacteristicTokens(words) : words \in SUBSET AnchorWords } \ {{}},
     base_model_tokens : {{}, {M_a15}},
     base_gender : {NULL},
     base_brand_tokens : {{}},
     base_subject_id : {NULL},
     match_percent_threshold : {NULL},
     limit : {1},
     max_price : {100000},
     exclude_wb_item_id : {7}]

InitAnchors ==
    /\ InitWorker(NULL, NULL)
    /\ fin \in AnchorRefs
    /\ fout = << >>

\* The required_anchor_matches_for_pass arguments of the four collect_pass calls
ApplyAnchors ==
    /\ fout = << >>
    /\ fout' = << [k \in 1..4 |-> PassParams(fin, k).required_anchor_matches] >>
    /\ UNCHANGED <<clock, users, tracks, alerts, pc, now, todo, sess, frozen, dirty,
                   sessAlerts, sessSnapshots, last, userOps, hist, okHist, cycSent, fin, heartbeat,
                   last_expiry_check>>

NextAnchors == ApplyAnchors

SpecAnchors == InitAnchors /\ [][NextAnchors]_vars

---------------------------------------------------------------------------
(* _get_json_with_retries as a state machine: one step per attempt.  fout    *)
(* holds the loop's position, the outcomes of the attempts made, the sleeps  *)
(* taken (in hundredths of a second) and what the call returned.             *)

\* The default of the `retries` parameter, which every caller leaves as it is
RETRIES == 2

\* 0.35 seconds, in hundredths of a second
RETRY_DELAY == 35

\* What one session.get can end in: an exception (timeout, connection error, a body
\* that is not JSON), a status other than 200, or a JSON value
AttemptOutcomes ==
    {"timeout", "connection_error", "malformed_json", "status_429", "status_500",
     "status_404", "json_dict", "json_list", "json_scalar"}

\* The outcomes that raise inside the try block
RaisingOutcomes == {"timeout", "connection_error", "malformed_json"}

InitRetries ==
    /\ InitWorker(NULL, NULL)
    /\ fin = [retries |-> RETRIES]
    /\ fout = << [pc |-> "attempt", attempt |-> 0, outcomes |-> << >>, delays |-> << >>,
                  result |-> NULL, raised |-> FALSE] >>

\* One pass of the loop body with the given outcome of session.get
Attempt(outcome) ==
    /\ fout[1].pc = "attempt"
    /\ LET f == [fout[1] EXCEPT !.outcomes = Append(@, outcome)]
           retry == [f EXCEPT !.delays = Append(@, RETRY_DELAY * (f.attempt + 1)),
                              !.attempt = @ + 1]
           return(v) == [f EXCEPT !.pc = "done", !.result = Some(v)]
       IN  fout' = << IF outcome \in {"json_dict", "json_list"} THEN return("data")
                      ELSE IF outcome = "json_scalar" THEN return("none")
                      ELSE IF outcome = "status_429"
                      THEN IF f.attempt < fin.retries THEN retry ELSE return("none")
                      ELSE IF outcome \in RaisingOutcomes
                      THEN IF f.attempt < fin.retries THEN retry ELSE return("none")
                      ELSE return("none") >>
    /\ UNCHANGED <<clock, users, tracks, alerts, pc, now, todo, sess, frozen, dirty,
                   sessAlerts, sessSnapshots, last, userOps, hist, okHist, cycSent, fin, heartbeat,
                   last_expiry_check>>

DoAttempt == \E outcome \in AttemptOutcomes : Attempt(outcome)

NextRetries == DoAttempt

SpecRetries == InitRetries /\ [][NextRetries]_vars

---------------------------------------------------------------------------
(* search_similar_cheaper_via_web from the gather of the snapshot fetches    *)
(* on: fin holds the reference, ordered_ids (1..Len) with what fetch_product *)
(* does for each id, and the limit; fout the state of the load tasks.        *)

\* _WEB_FETCH_CONCURRENCY
WEB_FETCH_CONCURRENCY == 8

\* A snapshot as the candidate loop reads it
WebSnap(price, tokens) ==
    [price |-> price, tokens |-> tokens, model_tokens |-> {}, brand |-> {},
     subject_id |-> NULL]

\* What fetch_product does for the ids of ordered_ids: it raises, returns None or
\* returns a snapshot
WebFetches ==
    << [res |-> "snap", snap |-> WebSnap(Some(50000), {T_iphone, T_pro})],
       [res |-> "snap", snap |-> WebSnap(Some(50000), {T_iphone, T_pro})],
       [res |-> "snap", snap |-> WebSnap(Some(30000), {T_iphone, T_pro})],
       [res |-> "raise", snap |-> WebSnap(NULL, {})],
       [res |-> "none", snap |-> WebSnap(NULL, {})],
       [res |-> "snap", snap |-> WebSnap(Some(100000), {T_iphone, T_pro})],
       [res |-> "raise", snap |-> WebSnap(NULL, {})],
       [res |-> "none", snap |-> WebSnap(NULL, {})],
       [res |-> "raise", snap |-> WebSnap(NULL, {})] >>

WebLimits == {1, 5}

WebRefs ==
    [base_tokens : {{T_iphone, T_pro}},
     base_model_tokens : {{}},
     base_brand_tokens : {{}},
     base_subject_id : {NULL},
     match_percent_threshold : {NULL},
     limit : WebLimits,
     max_price : {100000},
     fetches : {WebFetches}]

\* search_similar_cheaper_via_web, lines 632-650: the gates of the candidate loop
WebAccepted(ref, snap) ==
    /\ ~PriceRejected(snap.price, ref.max_price)
    /\ ~(ref.base_subject_id # NULL /\ snap.subject_id # NULL
         /\ snap.subject_id # ref.base_subject_id)
    /\ IsEcosystemCompatible(DetectEcosystem(ref.base_tokens), snap.tokens)
    /\ ~(ref.base_model_tokens # {}
         /\ ~ModelTokensCompatible(ref.base_model_tokens, snap.model_tokens, snap.tokens))
    /\ ~(ref.base_brand_tokens # {} /\ snap.brand # {}
         /\ MatchCount(ref.base_brand_tokens, snap.brand) = 0)
    /\ ~AnchorRejected(AnchorTokens(ref.base_tokens),
                       RequiredAnchorMatches(AnchorTokens(ref.base_tokens)), snap.tokens)
    /\ ~(BaseTypeTokens(ref) # {} /\ MatchCount(BaseTypeTokens(ref), snap.tokens) = 0)
    /\ ~(StrictMatchPercent(ref) > 0
         /\ MatchPercent(ref.base_tokens, snap.tokens) < StrictMatchPercent(ref))

\* The candidate loop over the gathered (nm_id, snap) pairs, from index i on
RECURSIVE WebCandidates(_, _, _)
WebCandidates(ref, snapshots, i) ==
    IF i > Len(snapshots) THEN << >>
    ELSE LET x == snapshots[i]
             rest == WebCandidates(ref, snapshots, i + 1)
         IN  IF x.snap = NULL THEN rest
             ELSE IF ~WebAccepted(ref, x.snap[1]) THEN rest
             ELSE << [wb_item_id |-> x.nm_id, price |-> x.snap[1].price[1]] >> \o rest

\* Gathered delivering the pairs in the order the loads completed
GatheredAsCompleted(f, n) ==
    [k \in 1..Len(f.completed) |-> [nm_id |-> f.completed[k], snap |-> f.loaded[f.completed[k]]]]

\* asyncio.gather: the results of the load tasks in the order of ordered_ids
Gathered(f, n) == [i \in 1..n |-> [nm_id |-> i, snap |-> f.loaded[i]]]

InFlight(f) == { i \in DOMAIN f.status : f.status[i] = "inflight" }

InitWeb ==
    /\ InitWorker(NULL, NULL)
    /\ fin \in WebRefs
    /\ fout = << [pc |-> "gather",
                  status |-> [i \in 1..Len(fin.fetches) |-> "waiting"],
                  loaded |-> [i \in 1..Len(fin.fetches) |-> NULL],
                  completed |-> << >>,
                  maxInFlight |-> 0,
                  result |-> NULL] >>

\* load, `async with sem`: the task of id i enters the semaphore and calls
\* fetch_product
Acquire(i) ==
    /\ fout[1].pc = "gather"
    /\ fout[1].status[i] = "waiting"
    /\ Cardinality(InFlight(fout[1])) < WEB_FETCH_CONCURRENCY
    /\ fout' = << [fout[1] EXCEPT !.status[i] = "inflight",
                                  !.maxInFlight = Max(@, Cardinality(InFlight(fout[1])) + 1)] >>
    /\ UNCHANGED <<clock, users, tracks, alerts, pc, now, todo, sess, frozen, dirty,
                   sessAlerts, sessSnapshots, last, userOps, hist, okHist, cycSent, fin, heartbeat,
                   last_expiry_check>>

\* load, lines 622-626: fetch_product of id i is over (an exception gives None) and
\* the task leaves the semaphore.  completed: the ids that brought a snapshot, in
\* the order of their completion (history).
Complete(i) ==
    /\ fout[1].pc = "gather"
    /\ fout[1].status[i] = "inflight"
    /\ LET o == fin.fetches[i]
       IN  fout' = << [fout[1] EXCEPT
                          !.status[i] = "done",
                          !.loaded[i] = IF o.res = "snap" THEN Some(o.snap) ELSE NULL,
                          !.completed = IF o.res = "snap" THEN Append(@, i) ELSE @] >>
    /\ UNCHANGED <<clock, users, tracks, alerts, pc, now, todo, sess, frozen, dirty,
                   sessAlerts, sessSnapshots, last, userOps, hist, okHist, cycSent, fin, heartbeat,
                   last_expiry_check>>

\* Lines 628-665: gather returns, the candidates are filtered, sorted and cut
WebFinish ==
    /\ fout[1].pc = "gather"
    /\ \A i \in DOMAIN fout[1].status : fout[1].status[i] = "done"
    /\ LET snapshots == Gathered(fout[1], Len(fin.fetches))
           candidates == WebCandidates(fin, snapshots, 1)
       IN  fout' = << [fout[1] EXCEPT
                          !.pc = "done",
                          !.result = Some(Take(SortByPrice(candidates), fin.limit))] >>
    /\ UNCHANGED <<clock, users, tracks, alerts, pc, now, todo, sess, frozen, dirty,
                   sessAlerts, sessSnapshots, last, userOps, hist, okHist, cycSent, fin, heartbeat,
                   last_expiry_check>>

DoAcquire == \E i \in 1..Len(fin.fetches) : Acquire(i)

DoComplete == \E i \in 1..Len(fin.fetches) : Complete(i)

NextWeb ==
    \/ DoAcquire
    \/ DoComplete
    \/ WebFinish

SpecWeb == InitWeb /\ [][NextWeb]_vars

---------------------------------------------------------------------------
(* expire_pro_users in the transaction of the expiry pass, next to           *)
(* successful_payment_handler in the transaction of its request, on a        *)
(* PostgreSQL database at READ COMMITTED: every statement reads what is      *)
(* committed when it starts, an UPDATE waits for the row locks of the other  *)
(* transaction, and the writes of a transaction show at its commit.  fout    *)
(* holds the committed rows (the users, and the check interval of each       *)
(* user's tracks), both transactions and the row locks; fin the paying user. *)

\* The time of both transactions
PayNow == Hours(48)

\* timedelta(days=30)
Days30 == Hours(24 * 30)

PayExpiries == {Some(Hours(24)), Some(Hours(72))}

InitPay ==
    /\ InitWorker(NULL, NULL)
    /\ fin \in [payer : UserIds]
    /\ \E e \in [UserIds -> PayExpiries] :
          fout = << [users |-> [u \in UserIds |-> [plan |-> "pro", pro_expires_at |-> e[u]]],
                     interval |-> [u \in UserIds |-> PRO_INTERVAL_MIN],
                     exp |-> [pc |-> "idle", user_ids |-> {}],
                     pay |-> [pc |-> "idle", loaded |-> NULL, pro_expires_at |-> NULL],
                     lockU |-> [u \in UserIds |-> "none"],
                     lockT |-> [u \in UserIds |-> "none"]] >>

PayFrame ==
    UNCHANGED <<clock, users, tracks, alerts, pc, now, todo, sess, frozen, dirty,
                sessAlerts, sessSnapshots, last, userOps, hist, okHist, cycSent, fin, heartbeat,
                last_expiry_check>>

\* expire_pro_users, lines 431-439: the SELECT of the expired users
ExpSelect ==
    /\ fout[1].exp.pc = "idle"
    /\ LET ids == ExpiredUsers(fout[1].users, PayNow)
       IN  fout' = << [fout[1] EXCEPT !.exp = [pc |-> IF ids = {} THEN "done" ELSE "selected",
                                               user_ids |-> ids]] >>
    /\ PayFrame

\* expire_pro_users, lines 444-448: UPDATE users ... WHERE id IN (user_ids); it
\* waits while the payment holds the lock of one of the rows
ExpUpdateUsers ==
    /\ fout[1].exp.pc = "selected"
    /\ \A u \in fout[1].exp.user_ids : fout[1].lockU[u] # "pay"
    /\ fout' = << [fout[1] EXCEPT
                      !.exp.pc = "users_updated",
                      !.lockU = [u \in UserIds |->
                                    IF u \in fout[1].exp.user_ids THEN "exp" ELSE @[u]]] >>
    /\ PayFrame

\* expire_pro_users, lines 450-454: UPDATE tracks ... WHERE user_id IN (user_ids)
ExpUpdateTracks ==
    /\ fout[1].exp.pc = "users_updated"
    /\ \A u \in fout[1].exp.user_ids : fout[1].lockT[u] # "pay"
    /\ fout' = << [fout[1] EXCEPT
                      !.exp.pc = "tracks_updated",
                      !.lockT = [u \in UserIds |->
                                    IF u \in fout[1].exp.user_ids THEN "exp" ELSE @[u]]] >>
    /\ PayFrame

\* start_worker, line 222: the exit of db_session.begin() commits the downgrade
ExpCommit ==
    /\ fout[1].exp.pc = "tracks_updated"
    /\ LET ids == fout[1].exp.user_ids
       IN  fout' = << [fout[1] EXCEPT
                          !.exp.pc = "done",
                          !.users = [u \in UserIds |->
                                        IF u \in ids
                                        THEN [plan |-> "free", pro_expires_at |-> NULL]
                                        ELSE @[u]],
                          !.interval = [u \in UserIds |->
                                           IF u \in ids THEN FREE_INTERVAL_MIN ELSE @[u]],
                          !.lockU = [u \in UserIds |-> IF @[u] = "exp" THEN "none" ELSE @[u]],
                          !.lockT = [u \in UserIds |-> IF @[u] = "exp" THEN "none" ELSE @[u]]] >>
    /\ PayFrame

\* successful_payment_handler, lines 1219-1230: the user is loaded and the new
\* expiry computed from the loaded one
PayLoad ==
    /\ fout[1].pay.pc = "idle"
    /\ LET user == fout[1].users[fin.payer]
           base_expiry == IF user.pro_expires_at # NULL /\ user.pro_expires_at[1] > PayNow
                          THEN user.pro_expires_at[1] ELSE PayNow
       IN  fout' = << [fout[1] EXCEPT
                          !.pay = [pc |-> "loaded", loaded |-> Some(user),
                                   pro_expires_at |-> Some(base_expiry + Days30)]] >>
    /\ PayFrame

\* set_user_tracks_interval, line 467: the autoflush before the statement issues
\* the UPDATE of the user's changed columns
PayUpdateUser ==
    /\ fout[1].pay.pc = "loaded"
    /\ fout[1].lockU[fin.payer] # "exp"
    /\ fout' = << [fout[1] EXCEPT !.pay.pc = "user_updated",
                                  !.lockU[fin.payer] = "pay"] >>
    /\ PayFrame

\* set_user_tracks_interval, lines 467-471: UPDATE tracks ... WHERE user_id = id
PayUpdateTracks ==
    /\ fout[1].pay.pc = "user_updated"
    /\ fout[1].lockT[fin.payer] # "exp"
    /\ fout' = << [fout[1] EXCEPT !.pay.pc = "tracks_updated",
                                  !.lockT[fin.payer] = "pay"] >>
    /\ PayFrame

\* successful_payment_handler, line 1277: commit.  The UPDATE of the user wrote the
\* columns whose value differs from the loaded one.
PayCommit ==
    /\ fout[1].pay.pc = "tracks_updated"
    /\ LET u == fin.payer
           loaded == fout[1].pay.loaded[1]
       IN  fout' = << [fout[1] EXCEPT
                          !.pay.pc = "done",
                          !.users[u] = [plan |-> IF loaded.plan # "pro" THEN "pro" ELSE @.plan,
                                        pro_expires_at |-> fout[1].pay.pro_expires_at],
                          !.interval[u] = PRO_INTERVAL_MIN,
                          !.lockU[u] = "none",
                          !.lockT[u] = "none"] >>
    /\ PayFrame

NextPay ==
    \/ ExpSelect
    \/ ExpUpdateUsers
    \/ ExpUpdateTracks
    \/ ExpCommit
    \/ PayLoad
    \/ PayUpdateUser
    \/ PayUpdateTracks
    \/ PayCommit

SpecPay == InitPay /\ [][NextPay]_vars

---------------------------------------------------------------------------
(* The worker loop around midnight, with a history of the tracks whose       *)
(* latest check did not take place: track 2 of the pro user was checked an   *)
(* hour ago and the user's pro plan has just run out; the expiry pass of the *)
(* day before is done.  fout holds the history: for each track whose latest  *)
(* check raised or got no snapshot and left it active, the check interval    *)
(* the track had then.                                                       *)

InitStale ==
    /\ clock = Hours(24)
    /\ users = [u \in UserIds |->
                   IF u = 1
                   THEN [plan |-> "free", pro_expires_at |-> NULL]
                   ELSE [plan |-> "pro", pro_expires_at |-> Some(Hours(24) - 1)]]
    /\ tracks = [t \in Tracks |->
                    IF t = 1
                    THEN NewTrack(1, FREE_INTERVAL_MIN, NULL, NULL, 0)
                    ELSE NewTrack(2, PRO_INTERVAL_MIN, NULL, NULL, Hours(23))]
    /\ alerts = {}
    /\ pc = "idle"
    /\ now = clock
    /\ todo = {}
    /\ sess = << >>
    /\ frozen = {}
    /\ dirty = {}
    /\ sessAlerts = {}
    /\ sessSnapshots = {}
    /\ last = Step("other", 0)
    /\ userOps = 0
    /\ hist = << >>
    /\ okHist = << >>
    /\ cycSent = << >>
    /\ heartbeat = NULL
    /\ last_expiry_check = Some(0)
    /\ fin = << >>
    /\ fout = << {} >>

\* The loop body for one due track, with the history
CheckTrackOwed(t, fetch, failAt, pauseFails) ==
    /\ CheckTrackBody(t, fetch, failAt, pauseFails)
    /\ LET others == { o \in fout[1] : o.track # t }
       IN  fout' = << IF last'.outcome # "ok" /\ sess'[t].is_active
                      THEN others \cup {[track |-> t, interval |-> sess[t].check_interval_min]}
                      ELSE others >>

DoCheckOwed ==
    \E t \in Tracks : \E fetch \in Fetches(t), failAt \in 0..2, pauseFails \in BOOLEAN :
        CheckTrackOwed(t, fetch, failAt, pauseFails)

NextStale ==
    \/ Tick
    \/ BeginCycle
    \/ DoCheckOwed
    \/ CommitOk
    \/ Abort
    \/ ExpiryOk

SpecStale == InitStale /\ [][NextStale]_vars

---------------------------------------------------------------------------
(* FeatureUsageDailyRD.try_consume: concurrent calls for one user, one       *)
(* feature and one UTC day, each a sequence of Redis commands (INCR, EXPIRE, *)
(* DECR) between which the commands of the other calls can run.  fin is the  *)
(* daily limit; fout holds the key (absent, or its integer value), whether   *)
(* it has a time to live, and each call's position, used_now and result.     *)

UsageCalls == 1..4

\* the daily limits of the calls: the admin handlers accept 1..50
UsageLimits == {1, 2}

InitUsage ==
    /\ InitWorker(NULL, NULL)
    /\ fin \in [daily_limit : UsageLimits]
    /\ fout = << [key |-> NULL, ttl |-> FALSE,
                  calls |-> [i \in UsageCalls |->
                                [pc |-> "start", used_now |-> 0, allowed |-> FALSE, used |-> 0]]] >>

UsageFrame ==
    UNCHANGED <<clock, users, tracks, alerts, pc, now, todo, sess, frozen, dirty,
                sessAlerts, sessSnapshots, last, userOps, hist, okHist, cycSent, fin,
                heartbeat, last_expiry_check>>

\* the value INCR and DECR work on: an absent key counts as 0
KeyValue(key) == IF key = NULL THEN 0 ELSE key[1]

\* line 267: used_now = int(await redis.incr(key))
UsageIncr(i) ==
    /\ fout[1].calls[i].pc = "start"
    /\ LET used_now == KeyValue(fout[1].key) + 1
       IN  fout' = << [fout[1] EXCEPT
                          !.key = Some(used_now),
                          !.calls[i].used_now = used_now,
                          !.calls[i].pc = IF used_now = 1 THEN "expire" ELSE "check"] >>
    /\ UsageFrame

\* lines 268-269: await redis.expire(key, ttl); EXPIRE on an absent key does nothing
UsageExpire(i) ==
    /\ fout[1].calls[i].pc = "expire"
    /\ fout' = << [fout[1] EXCEPT !.ttl = fout[1].key # NULL,
                                  !.calls[i].pc = "check"] >>
    /\ UsageFrame

\* UsageReject without the DECR of line 272
UsageRejectKeepsCount(i) ==
    /\ fout[1].calls[i].pc = "check"
    /\ fout[1].calls[i].used_now > fin.daily_limit
    /\ fout' = << [fout[1] EXCEPT
                      !.calls[i].pc = "done",
                      !.calls[i].allowed = FALSE,
                      !.calls[i].used = fin.daily_limit] >>
    /\ UsageFrame

\* lines 271-273: over the limit, DECR and return (False, daily_limit)
UsageReject(i) ==
    /\ fout[1].calls[i].pc = "check"
    /\ fout[1].calls[i].used_now > fin.daily_limit
    /\ fout' = << [fout[1] EXCEPT
                      !.key = Some(KeyValue(@) - 1),
                      !.calls[i].pc = "done",
                      !.calls[i].allowed = FALSE,
                      !.calls[i].used = fin.daily_limit] >>
    /\ UsageFrame

\* lines 271, 275: return (True, used_now)
UsageAllow(i) ==
    /\ fout[1].calls[i].pc = "check"
    /\ fout[1].calls[i].used_now <= fin.daily_limit
    /\ fout' = << [fout[1] EXCEPT
                      !.calls[i].pc = "done",
                      !.calls[i].allowed = TRUE,
                      !.calls[i].used = fout[1].calls[i].used_now] >>
    /\ UsageFrame

DoUsageIncr == \E i \in UsageCalls : UsageIncr(i)

DoUsageExpire == \E i \in UsageCalls : UsageExpire(i)

DoUsageReject == \E i \in UsageCalls : UsageReject(i)

DoUsageAllow == \E i \in UsageCalls : UsageAllow(i)

NextUsage ==
    \/ DoUsageIncr
    \/ DoUsageExpire
    \/ DoUsageReject
    \/ DoUsageAllow

SpecUsage == InitUsage /\ [][NextUsage]_vars

---------------------------------------------------------------------------
(* The model-token gate of the four passes on texts.  A text is a sequence   *)
(* of lower-case words, a word a sequence of letters, digits and hyphens.    *)
(* fin is the reference's text, the candidate's text and the pass; fout the  *)
(* gate's locals and its verdict.                                            *)

\* str.split("-") of a word
RECURSIVE SplitHyphen(_)
SplitHyphen(word) ==
    IF word = << >> THEN << << >> >>
    ELSE LET rest == SplitHyphen(Tail(word))
         IN  IF Head(word) = "-" THEN << << >> >> \o rest
             ELSE << <<Head(word)>> \o rest[1] >> \o Tail(rest)

\* `[a-z0-9]{2,}` between two word boundaries: a whole hyphen-free piece of a word
\* (a Cyrillic letter next to it is a word character and leaves no boundary)
ModelSegment(seg) ==
    /\ Len(seg) >= 2
    /\ \A i \in 1..Len(seg) : seg[i] \in LATIN \cup DIGITS

\* the pieces i..j joined by hyphens again
RECURSIVE JoinHyphen(_, _, _)
JoinHyphen(segs, i, j) ==
    IF i = j THEN segs[i] ELSE segs[i] \o <<"-">> \o JoinHyphen(segs, i + 1, j)

\* _MODEL_TOKEN_RE.finditer on one word: the greedy matches are the maximal runs of
\* two or more such pieces
WordModelTokens(word) ==
    LET segs == SplitHyphen(word)
        n == Len(segs)
    IN  { JoinHyphen(segs, r[1], r[2]) :
            r \in { q \in (1..n) \X (1..n) :
                      /\ q[1] < q[2]
                      /\ \A k \in q[1]..q[2] : ModelSegment(segs[k])
                      /\ q[1] = 1 \/ ~ModelSegment(segs[q[1] - 1])
                      /\ q[2] = n \/ ~ModelSegment(segs[q[2] + 1]) } }

\* _extract_model_tokens
ExtractModelTokens(text) == UNION { WordModelTokens(text[i]) : i \in 1..Len(text) }

\* _tokenize, line 273: punctuation becomes a blank, so the words of the text are
\* the hyphen-free pieces
TextWords(text) ==
    UNION { { SplitHyphen(text[i])[k] : k \in 1..Len(SplitHyphen(text[i])) } :
            i \in 1..Len(text) }

\* "sa-155", "sa-15-5g", "a-15" and a Cyrillic word glued to "sa-15"
M_a155 == <<"s", "a", "-", "1", "5", "5">>

M_a15_5g == <<"s", "a", "-", "1", "5", "-", "5", "g">>

M_short == <<"a", "-", "1", "5">>

M_glued == <<"cyr_ch", "cyr_e", "cyr_h", "cyr_o", "cyr_l", "s", "a", "-", "1", "5">>

\* "rx-5-a1": the one-character piece splits nothing off that is a token
M_rx == <<"r", "x", "-", "5", "-", "a", "1">>

GateTitles ==
    { <<T_chehol, T_galaxy, M_a15>>, <<T_iphone, T_pro>>, <<T_galaxy, M_a15, M_a15_5g>>,
      <<T_chehol, M_short>> }

GateTexts ==
    { <<T_chehol, T_galaxy>>, <<T_chehol, M_a15>>, <<M_a155>>, <<T_galaxy, M_a15_5g>>,
      <<M_short, T_pro>>, <<M_glued>>, <<T_iphone, M_rx, M_a15>>, << >>,
      <<T_galaxy, T_pro, M_a155, M_a15>> }

\* The reference of _search_similar_all_sources, lines 720-722, from its text
GateRef(title) ==
    [base_tokens |-> CharacteristicTokens(TextWords(title)),
     base_model_tokens |-> ExtractModelTokens(title),
     base_gender |-> NULL,
     base_brand_tokens |-> {},
     base_subject_id |-> NULL,
     match_percent_threshold |-> NULL,
     limit |-> 1,
     max_price |-> 100000,
     exclude_wb_item_id |-> 7]

\* Pass 4 is called only for a reference that has model tokens (line 847)
InitModelGate ==
    /\ InitWorker(NULL, NULL)
    /\ fin \in { i \in [title : GateTitles, text : GateTexts, pass : 1..4] :
                    i.pass = 4 => ExtractModelTokens(i.title) # {} }
    /\ fout = << >>

\* Lines 940-948 and 1161-1169: the gate of both sources
ApplyModelGate ==
    /\ fout = << >>
    /\ LET ref == GateRef(fin.title)
           pp == PassParams(ref, fin.pass)
           candidate_model_tokens == ExtractModelTokens(fin.text)
           candidate_tokens == CharacteristicTokens(TextWords(fin.text))
       IN  fout' = << [base_model_tokens |-> ref.base_model_tokens,
                       candidate_model_tokens |-> candidate_model_tokens,
                       candidate_tokens |-> candidate_tokens,
                       rejected |-> /\ pp.require_model_tokens
                                    /\ ~ModelTokensCompatible(ref.base_model_tokens,
                                                              candidate_model_tokens,
                                                              candidate_tokens)] >>
    /\ UNCHANGED <<clock, users, tracks, alerts, pc, now, todo, sess, frozen, dirty,
                   sessAlerts, sessSnapshots, last, userOps, hist, okHist, cycSent, fin,
                   heartbeat, last_expiry_check>>

NextModelGate == ApplyModelGate

SpecModelGate == InitModelGate /\ [][NextModelGate]_vars

---------------------------------------------------------------------------
(* _detect_gender and the gender gate of the four passes.  A text is given   *)
(* by the set of its words, in the form _tokenize leaves them in.  fin is    *)
(* the reference's words, the candidate's words and the pass; fout the two   *)
(* detected genders and the gate's verdict.                                  *)

W_men == <<"m", "e", "n">>

W_male == <<"m", "a", "l", "e">>

W_man == <<"m", "a", "n">>

W_boy == <<"b", "o", "y">>

W_boys == <<"b", "o", "y", "s">>

W_women == <<"w", "o", "m", "e", "n">>

W_woman == <<"w", "o", "m", "a", "n">>

W_female == <<"f", "e", "m", "a", "l", "e">>

W_girl == <<"g", "i", "r", "l">>

W_girls == <<"g", "i", "r", "l", "s">>

W_unisex == <<"u", "n", "i", "s", "e", "x">>

\* "унисекс", "мужской", "женский"
W_uniseks == <<"cyr_u", "cyr_n", "cyr_i", "cyr_s", "cyr_e", "cyr_k", "cyr_s">>

W_muzhskoj == <<"cyr_m", "cyr_u", "cyr_zh", "cyr_s", "cyr_k", "cyr_o", "cyr_j">>

W_zhenskij == <<"cyr_zh", "cyr_e", "cyr_n", "cyr_s", "cyr_k", "cyr_i", "cyr_j">>

GENDER_MALE_PREFIXES == { <<"cyr_m", "cyr_u", "cyr_zh">> }

GENDER_FEMALE_PREFIXES == { <<"cyr_zh", "cyr_e", "cyr_n">> }

GENDER_MALE_WORDS == {W_men, W_male, W_man, W_boy, W_boys}

GENDER_FEMALE_WORDS == {W_women, W_woman, W_female, W_girl, W_girls}

GENDER_UNISEX_WORDS == {W_unisex, W_uniseks}

\* str.startswith
StartsWith(token, prefix) ==
    /\ Len(token) >= Len(prefix)
    /\ SubSeq(token, 1, Len(prefix)) = prefix

IsMaleToken(token) ==
    \/ token \in GENDER_MALE_WORDS
    \/ \E prefix \in GENDER_MALE_PREFIXES : StartsWith(token, prefix)

IsFemaleToken(token) ==
    \/ token \in GENDER_FEMALE_WORDS
    \/ \E prefix \in GENDER_FEMALE_PREFIXES : StartsWith(token, prefix)

\* _detect_gender with the unisex words left out of account
DetectGenderWithoutUnisex(words) ==
    LET tokens == { w \in words : TokenKept(w) }
        has_male == \E token \in tokens : IsMaleToken(token)
        has_female == \E token \in tokens : IsFemaleToken(token)
    IN  IF has_male /\ ~has_female THEN Some("male")
        ELSE IF has_female /\ ~has_male THEN Some("female")
        ELSE NULL

\* _detect_gender
DetectGender(words) ==
    LET tokens == { w \in words : TokenKept(w) }
        has_unisex == \E token \in tokens : token \in GENDER_UNISEX_WORDS
        has_male == \E token \in tokens : IsMaleToken(token)
        has_female == \E token \in tokens : IsFemaleToken(token)
    IN  IF has_unisex THEN NULL
        ELSE IF has_male /\ ~has_female THEN Some("male")
        ELSE IF has_female /\ ~has_male THEN Some("female")
        ELSE NULL

GenderTitles == SUBSET {W_men, W_zhenskij, W_unisex, T_iphone}

GenderTexts == SUBSET {W_boys, W_muzhskoj, W_woman, W_zhenskij, W_uniseks, T_pro}

InitGender ==
    /\ InitWorker(NULL, NULL)
    /\ fin \in [title : GenderTitles, text : GenderTexts, pass : 1..4]
    /\ fout = << >>

\* Lines 720 and 935-938 (1156-1159 in the catalog source): the gender gate
ApplyGender ==
    /\ fout = << >>
    /\ LET base_gender == DetectGender(fin.title)
           ref == [GateRef(<<M_a15>>) EXCEPT !.base_gender = base_gender]
           pp == PassParams(ref, fin.pass)
           candidate_gender == DetectGender(fin.text)
       IN  fout' = << [base_gender |-> base_gender,
                       candidate_gender |-> candidate_gender,
                       rejected |-> /\ pp.enforce_gender /\ base_gender # NULL
                                    /\ candidate_gender # NULL
                                    /\ candidate_gender # base_gender] >>
    /\ UNCHANGED <<clock, users, tracks, alerts, pc, now, todo, sess, frozen, dirty,
                   sessAlerts, sessSnapshots, last, userOps, hist, okHist, cycSent, fin,
                   heartbeat, last_expiry_check>>

NextGender == ApplyGender

SpecGender == InitGender /\ [][NextGender]_vars

---------------------------------------------------------------------------
(* _required_anchor_matches on anchor token sets, and _tokens_match on       *)
(* pairs of tokens                                                           *)

\* "кино", "столик", "столики", "молоко", "стекла", and "15л": a token with a digit
\* and no Latin letter
W_kino == <<"cyr_k", "cyr_i", "cyr_n", "cyr_o">>

W_stolik == <<"cyr_s", "cyr_t", "cyr_o", "cyr_l", "cyr_i", "cyr_k">>

W_stoliki == <<"cyr_s", "cyr_t", "cyr_o", "cyr_l", "cyr_i", "cyr_k", "cyr_i">>

W_moloko == <<"cyr_m", "cyr_o", "cyr_l", "cyr_o", "cyr_k", "cyr_o">>

W_stekla == <<"cyr_s", "cyr_t", "cyr_e", "cyr_k", "cyr_l", "cyr_i">>

W_15l == <<"1", "5", "cyr_l">>

\* "ipho", "iphx", "pros", "iphone" followed by a Cyrillic letter, "case" followed
\* by one
W_ipho == <<"i", "p", "h", "o">>

W_iphx == <<"i", "p", "h", "x">>

W_pros == <<"p", "r", "o", "s">>

W_iphone_l == <<"i", "p", "h", "o", "n", "e", "cyr_l">>

W_case_l == <<"c", "a", "s", "e", "cyr_l">>

\* The anchor token sets: none of the words is generic
RequiredAnchorSets ==
    SUBSET {T_iphone, T_pro, W_15l, T_steklo, W_kino, W_stolik, W_moloko}

InitRequired ==
    /\ InitWorker(NULL, NULL)
    /\ fin \in [anchor_tokens : RequiredAnchorSets]
    /\ fout = << >>

ApplyRequired ==
    /\ fout = << >>
    /\ fout' = << RequiredAnchorMatches(AnchorTokens(fin.anchor_tokens)) >>
    /\ UNCHANGED <<clock, users, tracks, alerts, pc, now, todo, sess, frozen, dirty,
                   sessAlerts, sessSnapshots, last, userOps, hist, okHist, cycSent, fin,
                   heartbeat, last_expiry_check>>

NextRequired == ApplyRequired

SpecRequired == InitRequired /\ [][NextRequired]_vars

MatchWords ==
    {T_iphone, T_iphones, W_ipho, W_iphx, T_pro, W_pros, T_case, W_case_l, W_iphone_l,
     T_steklo, W_stekla, W_stolik, W_stoliki, W_kino}

InitMatch ==
    /\ InitWorker(NULL, NULL)
    /\ fin \in [left : MatchWords, right : MatchWords]
    /\ fout = << >>

ApplyMatch ==
    /\ fout = << >>
    /\ fout' = << [forth |-> TokensMatch(fin.left, fin.right),
                   back |-> TokensMatch(fin.right, fin.left)] >>
    /\ UNCHANGED <<clock, users, tracks, alerts, pc, now, todo, sess, frozen, dirty,
                   sessAlerts, sessSnapshots, last, userOps, hist, okHist, cycSent, fin,
                   heartbeat, last_expiry_check>>

NextMatch == ApplyMatch

SpecMatch == InitMatch /\ [][NextMatch]_vars

---------------------------------------------------------------------------
(* The detection part of run_cycle as a function of the track's stored       *)
(* state and the fetched snapshot                                            *)

DetectLastPrices == {NULL, Some(0), Some(2000), Some(10000)}

DetectPrices == {NULL, Some(1750), Some(2000), Some(2500), Some(9000), Some(9001)}

\* target_drop_percent is None or what the settings handler stores, 1..99
DetectTargets == {NULL, Some(1), Some(10), Some(12), Some(13), Some(99)}

DetectSizeSets == SUBSET SeqToSet(SizeNames)

\* The track of a detection input: a track with the input's stored state
DetectTrack(f) ==
    [NewTrack(1, FREE_INTERVAL_MIN, NULL, f.target_drop_percent, 0)
        EXCEPT !.last_price = f.last_price,
               !.watch_sizes = SortedSeq(f.watched),
               !.last_sizes = IF f.prev = NULL THEN NULL ELSE Some(SortedSeq(f.prev[1]))]

\* The snapshot of a detection input
DetectSnap(f) ==
    [price |-> f.price, in_stock |-> TRUE, total_qty |-> NULL,
     sizes |-> SortedSeq(f.curr)]

InitDetect ==
    /\ InitWorker(NULL, NULL)
    /\ fin \in [last_price : DetectLastPrices,
                 price : DetectPrices,
                 target_drop_percent : DetectTargets,
                 watched : DetectSizeSets,
                 prev : {NULL} \cup { Some(S) : S \in DetectSizeSets },
                 curr : DetectSizeSets]
    /\ fout = << >>

\* One check of the track: the drop percent and the events it detects
ApplyDetect ==
    /\ fout = << >>
    /\ fout' = << [drop |-> PriceDropPercent(fin.last_price, fin.price),
                   events |-> DetectEvents(DetectTrack(fin), "free", DetectSnap(fin))] >>
    /\ UNCHANGED <<clock, users, tracks, alerts, pc, now, todo, sess, frozen, dirty,
                   sessAlerts, sessSnapshots, last, userOps, hist, okHist, cycSent, fin, heartbeat,
                   last_expiry_check>>

NextDetect == ApplyDetect

SpecDetect == InitDetect /\ [][NextDetect]_vars

---------------------------------------------------------------------------
(* The stock and quantity events of the detection part, as a function of    *)
(* the track's stored state, the owner's plan and the fetched snapshot       *)

StockQuantities == {NULL, Some(0), Some(3), Some(5)}

\* The track of a stock input: no targets, no watched sizes
StockTrack(f) ==
    [NewTrack(1, FREE_INTERVAL_MIN, NULL, NULL, 0)
        EXCEPT !.watch_stock = f.watch_stock,
               !.last_in_stock = f.last_in_stock,
               !.watch_qty = f.watch_qty,
               !.last_qty = f.last_qty]

\* The snapshot of a stock input, at the track's last price
StockSnap(f) ==
    [price |-> Some(2000), in_stock |-> f.in_stock, total_qty |-> f.total_qty,
     sizes |-> << >>]

InitStock ==
    /\ InitWorker(NULL, NULL)
    /\ fin \in [plan : {"free", "pro"},
                 watch_stock : BOOLEAN,
                 last_in_stock : {NULL, Some(FALSE), Some(TRUE)},
                 in_stock : BOOLEAN,
                 watch_qty : BOOLEAN,
                 last_qty : StockQuantities,
                 total_qty : StockQuantities]
    /\ fout = << >>

\* One check of the track: the events it detects
ApplyStock ==
    /\ fout = << >>
    /\ fout' = << [events |-> DetectEvents(StockTrack(fin), fin.plan, StockSnap(fin))] >>
    /\ UNCHANGED <<clock, users, tracks, alerts, pc, now, todo, sess, frozen, dirty,
                   sessAlerts, sessSnapshots, last, userOps, hist, okHist, cycSent, fin,
                   heartbeat, last_expiry_check>>

NextStock == ApplyStock

SpecStock == InitStock /\ [][NextStock]_vars

\* The events of the given template among the detected events
EventsOf(events, key) == { i \in 1..Len(events) : events[i].kind = key }

---------------------------------------------------------------------------
(* Claims *)

\* C9: for every track that is active (and not soft-deleted) and every `now`,
\* due_tracks returns the track iff last_checked_at is unset or
\* now - last_checked_at >= check_interval; a difference equal to the interval is
\* due and any smaller difference is not.
C9_DueIffIntervalElapsed ==
    fout # << >> =>
        \A t \in Tracks :
            LET row == fin.rows[t]
            IN  (row.is_active /\ ~row.is_deleted) =>
                    (t \in fout[1] <=>
                        \/ row.last_checked_at = NULL
                        \/ fin.now - row.last_checked_at[1] >= row.check_interval_min)

\* C9 witness: one track exactly at its interval is returned, another one a minute
\* short of it is not
C9_Witness ==
    /\ fout # << >>
    /\ \E t, u \in Tracks :
        /\ fin.rows[t].is_active /\ ~fin.rows[t].is_deleted
        /\ fin.rows[t].last_checked_at # NULL
        /\ fin.now - fin.rows[t].last_checked_at[1] = fin.rows[t].check_interval_min
        /\ t \in fout[1]
        /\ fin.rows[u].is_active /\ ~fin.rows[u].is_deleted
        /\ fin.rows[u].last_checked_at # NULL
        /\ fin.now - fin.rows[u].last_checked_at[1] = fin.rows[u].check_interval_min - 1
        /\ u \notin fout[1]

\* The alert rows the running cycle's session can see
VisibleAlerts == alerts \cup sessAlerts

\* C1: every event notification the worker sends has its dedup record committed
\* with it, so that, whatever fails or is cancelled afterwards, no check sends an
\* event content that was already sent to the user within the last 24 hours.
C1_NeverResentWithinWindow ==
    last.op = "check" => last.resent = {}

\* C2: when an event whose hash was recorded more than 24 hours ago is detected
\* again (and no send raises), the check completes as a success: the event is sent
\* once more, the track's last_checked_at is updated and its error count is 0.
C2_RerecordAfterWindowSucceeds ==
    (last.op = "check" /\ last.stale /\ last.cause # "send") =>
        /\ last.outcome = "ok"
        /\ sess[last.track].error_count = 0
        /\ sess[last.track].last_checked_at = Some(now)

\* C3: is_duplicate_event is true iff a row with that track id and that hash was
\* logged within the last 24 hours (false for another hash or another track), and
\* the successful checks of committed cycles never send the same event of a track
\* twice within 24 hours.
C3_DedupWithinWindow ==
    /\ \A t \in Tracks :
         \A h \in {e.event_hash : e \in VisibleAlerts}
                  \cup {HashEvent(last.track, "event", last.events[i]) :
                            i \in 1..Len(last.events)} :
            IsDuplicateEvent(VisibleAlerts, t, h, clock) <=>
                \E e \in VisibleAlerts :
                    /\ e.track_id = t
                    /\ e.event_hash = h
                    /\ clock - e.sent_at <= 24 * 60
    /\ last.op = "commit" => last.okResent = {}

\* C3 witness: a successful check detects an event that was sent exactly 24 hours
\* before, and sends nothing
C3_Witness ==
    /\ last.op = "check" /\ last.outcome = "ok"
    /\ last.events # << >> /\ last.sent = << >>
    /\ \E i \in 1..Len(last.events) :
          /\ <<last.track, last.events[i]>> \in DOMAIN okHist
          /\ clock - okHist[<<last.track, last.events[i]>>] = 24 * 60

\* C4: a failed check adds one to the error count; the failure that brings the
\* count to 5 deactivates the track and attempts exactly one pause notification,
\* the failures before it attempt none and leave the track active; a successful
\* check resets the count to 0; so a track is inactive iff its count has reached 5.
C4_PauseAfterFiveFailures ==
    /\ (last.op = "check" /\ last.outcome = "failed") =>
          LET t == last.track
              n == last.errBefore + 1
          IN  /\ sess[t].error_count = n
              /\ n < 5 => (sess[t].is_active /\ last.pause = 0)
              /\ n = 5 => (~sess[t].is_active /\ last.pause = 1)
    /\ (last.op = "check" /\ last.outcome = "ok") => sess[last.track].error_count = 0
    /\ \A t \in Tracks :
          /\ tracks[t].error_count <= 5
          /\ tracks[t].is_active <=> tracks[t].error_count < 5

\* C4 witness: the fifth consecutive failure pauses the track
C4_Witness ==
    /\ last.op = "check" /\ last.outcome = "failed"
    /\ last.errBefore = 4 /\ last.activeBefore
    /\ ~sess[last.track].is_active
    /\ last.pause = 1

\* C5: a check that raises leaves the cycle running: the other due tracks stay to
\* be processed, the updates and alert rows of the tracks processed before it stay
\* in the transaction, and the commit writes them.
C5_FailureIsIsolated ==
    [][ /\ (last'.op = "check" /\ last'.outcome = "failed") =>
             /\ pc' = "cycle"
             /\ todo' = todo \ {last'.track}
             /\ \A u \in DOMAIN sess \ {last'.track} : sess'[u] = sess[u]
             /\ dirty \subseteq dirty'
             /\ sessAlerts' = sessAlerts
        /\ last'.op = "commit" =>
             /\ \A u \in dirty : tracks'[u] = sess[u]
             /\ sessAlerts \subseteq alerts'
      ]_vars

\* C5 witness: track 1 fails after track 2 was processed successfully in the same
\* cycle, and track 2's update is still in the session
C5_Witness ==
    /\ last.op = "check" /\ last.track = 1 /\ last.outcome = "failed"
    /\ pc = "cycle"
    /\ 2 \in dirty
    /\ sess[2].last_checked_at = Some(now)

\* C6: a fetch that returns no snapshot is a failed check: it adds one to the
\* track's error count.
C6_NotFoundCountsAsFailure ==
    (last.op = "check" /\ last.fetch = "none") =>
        sess[last.track].error_count = last.errBefore + 1

\* C7: a send_notification failure while delivering an event is swallowed: the
\* error count is not incremented and the check's update of the track is kept.
C7_SendFailureSwallowed ==
    (last.op = "check" /\ last.cause = "send") =>
        /\ sess[last.track].error_count <= last.errBefore
        /\ sess[last.track].last_checked_at = Some(now)

\* C8: the due set of a cycle holds no paused and no soft-deleted track, and a
\* cycle that began when a track was paused or deleted neither checks the track
\* nor changes its row.
C8_PausedNeverSelected ==
    [][ /\ last'.op = "begin" =>
             \A t \in todo' : tracks'[t].is_active /\ ~tracks'[t].is_deleted
        /\ last'.op = "begin" =>
             \A t \in Tracks : (~tracks'[t].is_active \/ tracks'[t].is_deleted)
                                  => t \in frozen'
        /\ last'.op \in {"check", "commit"} =>
             \A t \in frozen : /\ tracks'[t] = tracks[t]
                               /\ ~(last'.op = "check" /\ last'.track = t)
                               /\ t \notin todo' /\ t \notin dirty'
      ]_vars

\* C8 witness: a cycle checks a track while the other one, overdue, is paused
C8_Witness ==
    /\ pc = "cycle" /\ last.op = "check" /\ last.outcome = "ok"
    /\ \E t \in frozen :
          /\ ~tracks[t].is_active
          /\ now - tracks[t].last_checked_at[1] >= tracks[t].check_interval_min

\* C10: only a user's resume turns an inactive track active again; until then no
\* cycle that begins checks the track, so no further pause notification is sent
\* for it.
C10_OnlyResumeReactivates ==
    [][ \A t \in Tracks : ~tracks[t].is_active =>
            /\ tracks'[t].is_active => userOps' = userOps + 1
            /\ (pc # "cycle" \/ t \in frozen) =>
                  ~(last'.op = "check" /\ last'.track = t)
      ]_vars

\* C10 witness: a track paused by its fifth failure stays paused while a later
\* cycle checks the other track
C10_Witness ==
    /\ ~tracks[1].is_active /\ tracks[1].error_count = 5
    /\ pc = "cycle" /\ 1 \in frozen
    /\ last.op = "check" /\ last.track = 2

\* C11: the heartbeat is written only by the step that commits the cycle, with the
\* cycle's `now`; a cycle that ends without its commit leaves the stored heartbeat
\* as it was, and the worker loop goes on to the expiry pass and the next cycle.
C11_HeartbeatOnlyAfterCommit ==
    [][ /\ (heartbeat' # heartbeat /\ heartbeat' # NULL) =>
             /\ last'.op = "commit"
             /\ pc = "cycle" /\ todo = {}
             /\ heartbeat' = Some([ts |-> now, written |-> clock])
             /\ alerts' = alerts \cup sessAlerts
             /\ \A t \in dirty : tracks'[t] = CommittedRow(tracks[t], sess[t])
        /\ last'.op = "abort" =>
             /\ heartbeat' = heartbeat
             /\ tracks' = tracks /\ alerts' = alerts
             /\ pc' = "expiry"
        /\ pc = "expiry" => ENABLED DoExpiry
        /\ pc = "idle" => ENABLED BeginCycle
      ]_vars

\* C11 witness: a cycle has ended without its commit while the heartbeat of an
\* earlier cycle is stored, and the loop is at the expiry pass
C11_Witness ==
    /\ last.op = "abort"
    /\ pc = "expiry"
    /\ heartbeat # NULL
    /\ heartbeat[1].ts = now

\* C12: the expiry pass follows every cycle, committed or not; it runs unless it
\* already succeeded on the same calendar day; a pass that raises changes nothing
\* and leaves the date unset, so that the next tick retries; after a pass that ran,
\* no user's pro plan has an expiry time before now, the expired users are free and
\* all their tracks have the free-tier interval, and the other rows are unchanged.
C12_ExpiryPassOncePerDay ==
    [][ /\ last'.op \in {"commit", "abort"} => pc' = "expiry"
        /\ pc = "expiry" => pc' \in {"expiry", "idle"}
        /\ (pc = "expiry" /\ pc' = "idle") =>
             last'.op = IF last_expiry_check = Some(Date(clock)) THEN "expiry_skip"
                        ELSE IF last'.op = "expiry_raise" THEN "expiry_raise"
                        ELSE "expiry"
        /\ last'.op \in {"expiry", "expiry_raise", "expiry_skip"} => pc = "expiry"
        /\ last'.op \in {"expiry_raise", "expiry_skip"} =>
             /\ users' = users /\ tracks' = tracks
             /\ last_expiry_check' = last_expiry_check
        /\ last'.op = "expiry" =>
             /\ last_expiry_check' = Some(Date(clock))
             /\ ExpiredUsers(users', clock) = {}
             /\ \A u \in UserIds :
                  IF u \in ExpiredUsers(users, clock)
                  THEN /\ users'[u].plan = "free"
                       /\ \A t \in Tracks : tracks[t].user_id = u =>
                             tracks'[t] = [tracks[t] EXCEPT
                                             !.check_interval_min = FREE_INTERVAL_MIN]
                  ELSE /\ users'[u] = users[u]
                       /\ \A t \in Tracks : tracks[t].user_id = u =>
                             tracks'[t] = tracks[t]
      ]_vars

\* C12 witness: the pass of the second day has just expired the pro user and reset
\* the interval of that user's track
C12_Witness ==
    /\ last.op = "expiry"
    /\ pc = "idle"
    /\ last_expiry_check = Some(1)
    /\ users[2].plan = "free"
    /\ tracks[2].check_interval_min = FREE_INTERVAL_MIN

\* The items of a list of accepted products
Items(s) == { s[i] : i \in 1..Len(s) }

C14_NeverRaises ==
    fout # << >> => ~fout[1].raised

\* C15: for every caller-supplied match threshold the pass-2 threshold is lower
\* than or equal to the pass-1 threshold, and the pass-3 threshold lower than or
\* equal to the pass-2 threshold.
C15_ThresholdsNeverRise ==
    fout # << >> => (fout[1][2] <= fout[1][1] /\ fout[1][3] <= fout[1][2])

\* C16: every product accepted in any pass from either source, and so every
\* product returned, has a known price strictly less than max_price.
C16_PriceGateEverywhere ==
    fout # << >> =>
        \A item \in Items(fout[1].similar) \cup Items(fout[1].combined)
                    \cup (IF fout[1].result = NULL THEN {} ELSE Items(fout[1].result[1])) :
            /\ item.price < fin.max_price
            /\ \E p \in SimProducts : /\ p.id = Some(item.wb_item_id)
                                      /\ p.sale_price = Kopecks(item.price)

\* C16 witness: the fourth pass has accepted a product from the catalog in a call
\* that was offered a product priced at max_price and one without a price
C16_Witness ==
    /\ fout # << >> /\ fout[1].result # NULL
    /\ fout[1].result[1] # << >>
    /\ fout[1].got[4] > 0
    /\ fout[1].menu = Some(1)
    /\ {4, 5} \subseteq fout[1].offered

\* C17: the drop percent is floor((old - new) / old * 100) when both prices are
\* known, old > 0 and new < old, and 0 otherwise; it is never negative; a check
\* emits a price_drop event (exactly one, carrying the drop percent) iff a drop
\* target is set and the drop percent is at least the target.  Old 2000, new 1750,
\* target 10 gives one price_drop event with percent 12; 10000 -> 9001 (9.99%) does
\* not fire for target 10; a drop percent of 0 never produces an event.
C17_DropPercentAndEvent ==
    fout # << >> =>
        LET old == fin.last_price
            new == fin.price
            drop == fout[1].drop
            drops == EventsOf(fout[1].events, "price_drop")
            fires == fin.target_drop_percent # NULL /\ drop >= fin.target_drop_percent[1]
        IN /\ drop >= 0
           /\ IF old # NULL /\ new # NULL /\ old[1] > 0 /\ new[1] < old[1]
              THEN /\ drop * old[1] <= (old[1] - new[1]) * 100
                   /\ (old[1] - new[1]) * 100 < (drop + 1) * old[1]
              ELSE drop = 0
           /\ Cardinality(drops) = IF fires THEN 1 ELSE 0
           /\ \A i \in drops : fout[1].events[i].nums = <<Some(drop), old, new>>
           /\ drop = 0 => drops = {}
           /\ (old = Some(2000) /\ new = Some(1750)) => drop = 12
           /\ (old = Some(10000) /\ new = Some(9001) /\ fin.target_drop_percent = Some(10))
                  => drops = {}

\* The spec's example: 2000 -> 1750 with target 10 has fired once, with percent 12
C17_Witness ==
    /\ fout # << >>
    /\ fin.last_price = Some(2000) /\ fin.price = Some(1750)
    /\ fin.target_drop_percent = Some(10)
    /\ fout[1].drop = 12
    /\ \E i \in 1..Len(fout[1].events) :
          /\ fout[1].events[i].kind = "price_drop"
          /\ fout[1].events[i].nums[1] = Some(12)

\* C18: sizes_appeared lists exactly watched \cap (new \ previous) and sizes_gone
\* exactly watched \cap (previous \ new), each size once; each event is emitted
\* (once) iff its set is non-empty, independently of the other; no unwatched size is
\* listed.  Watched {M, L}, previous {M}, new {M, L, XL} gives one sizes_appeared
\* event for L only.
C18_SizeEvents ==
    fout # << >> =>
        LET prev == IF fin.prev = NULL THEN {} ELSE fin.prev[1]
            app == fin.watched \cap (fin.curr \ prev)
            gone == fin.watched \cap (prev \ fin.curr)
            ev == fout[1].events
            appEv == EventsOf(ev, "sizes_appeared")
            goneEv == EventsOf(ev, "sizes_gone")
        IN /\ Cardinality(appEv) = IF app # {} THEN 1 ELSE 0
           /\ Cardinality(goneEv) = IF gone # {} THEN 1 ELSE 0
           /\ \A i \in appEv : SeqToSet(ev[i].strs) = app /\ Len(ev[i].strs) = Cardinality(app)
           /\ \A i \in goneEv : SeqToSet(ev[i].strs) = gone /\ Len(ev[i].strs) = Cardinality(gone)
           /\ \A i \in appEv \cup goneEv : SeqToSet(ev[i].strs) \subseteq fin.watched
           /\ (fin.watched = {"M", "L"} /\ fin.prev = Some({"M"}) /\ fin.curr = {"M", "L", "XL"})
                 => (goneEv = {} /\ \A i \in appEv : ev[i].strs = <<"L">>)

\* The spec's example has been checked: one sizes_appeared event, for L only,
\* although XL appeared too
C18_Witness ==
    /\ fout # << >>
    /\ fin.watched = {"M", "L"} /\ fin.prev = Some({"M"}) /\ fin.curr = {"M", "L", "XL"}
    /\ Cardinality(EventsOf(fout[1].events, "sizes_appeared")) = 1
    /\ \A i \in EventsOf(fout[1].events, "sizes_appeared") : fout[1].events[i].strs = <<"L">>
    /\ EventsOf(fout[1].events, "sizes_gone") = {}

\* C19: in a pass whose required anchor-match count r is > 0, every product a
\* request step accepts has at least r of the reference's anchor tokens matching
\* one of its characteristic tokens; with anchors {iphone, 15} and r = 2 a
\* candidate with iphone only is rejected by the gate and one with both is not.
C19_AnchorGate ==
    [][ /\ (fout # << >> /\ fout' # << >>) =>
             \A item \in (Items(fout'[1].similar) \cup Items(fout'[1].combined))
                         \ (Items(fout[1].similar) \cup Items(fout[1].combined)) :
                LET r == PassParams(fin, fout[1].pass).required_anchor_matches
                IN  r > 0 =>
                      \E p \in SimProducts :
                         /\ p.id = Some(item.wb_item_id)
                         /\ p.sale_price = Kopecks(item.price)
                         /\ Cardinality({ a \in AnchorTokens(fin.base_tokens) :
                                            \E c \in p.tokens : TokensMatch(a, c) }) >= r
        /\ AnchorRejected({T_iphone, T_15}, 2, {T_iphone})
        /\ ~AnchorRejected({T_iphone, T_15}, 2, {T_iphone, T_15})
      ]_vars

\* C19 witness: with anchors {iphone, pro} the first pass (r = 2) was offered the
\* product that shares iphone only and the one that shares both, and the call
\* returns the latter alone although limit is 2
C19_Witness ==
    /\ fout # << >> /\ fout[1].result # NULL
    /\ fin.base_tokens = {T_iphone, T_pro} /\ fin.limit = 2
    /\ fout[1].reqPasses = {1}
    /\ fout[1].offered = {1, 2}
    /\ \A item \in Items(fout[1].result[1]) : item.wb_item_id = 1
    /\ fout[1].result[1] # << >>

\* C20: the passes make their requests in the order 1, 2, 3, 4; a pass makes a
\* request only if every earlier pass ran and accepted nothing, and pass 4 only if
\* the reference has a literal model token.
C20_PassesInOrder ==
    [][ fout' # << >> =>
          /\ fout # << >> =>
               /\ fout'[1].pass >= fout[1].pass
               /\ fout'[1].reqPasses \ fout[1].reqPasses \subseteq {fout[1].pass}
               /\ \A k \in 1..4 : fout[1].got[k] > 0 => fout'[1].pass = k
          /\ \A k \in fout'[1].reqPasses :
               \A j \in 1..(k - 1) : j \in fout'[1].reqPasses /\ fout'[1].got[j] = 0
          /\ 4 \in fout'[1].reqPasses => fin.base_model_tokens # {}
      ]_vars

\* C20 witness: the first three passes made requests and accepted nothing, and the
\* fourth accepted a product
C20_Witness ==
    /\ fout # << >> /\ fout[1].result # NULL
    /\ fout[1].reqPasses = 1..4
    /\ fout[1].got[4] > 0

\* C21: the required anchor-match count never increases from one pass to the next;
\* in particular a reference without anchor tokens (pass-1 count 0) is asked for no
\* anchor match by any later pass.
C21_AnchorCountNeverRises ==
    fout # << >> => \A k \in 1..3 : fout[1][k + 1] <= fout[1][k]

\* C22: within one pass the search source is queried and its accepted candidates
\* are accumulated first; the catalog source is called only from the search source
\* of the same pass and only while fewer than `limit` results are accumulated; it is
\* given the accumulated ids to skip and the remaining number as its limit, returns
\* none of the skipped ids and at most the remaining number of items.
C22_SearchThenCatalog ==
    [][ fout' # << >> =>
          LET f == fout'[1]
              inCatalog == f.pc \in {"menu", "catalog"}
          IN  /\ inCatalog =>
                    /\ fout # << >>
                    /\ fout[1].pc \in {"search", "menu", "catalog"}
                    /\ fout[1].pass = f.pass
                    /\ f.pass \in fout[1].reqPasses
                    /\ f.cat # NULL
                    /\ Len(f.combined) < fin.limit
                    /\ f.cat[1].skip_ids = SeenIds(f.combined)
                    /\ SeenIds(f.similar) \cap SeenIds(f.combined) = {}
              /\ (fout # << >> /\ fout[1].pc = "search" /\ f.pc = "search")
                    => f.combined = fout[1].combined
              /\ f.cat # NULL =>
                    /\ f.cat[1].limit >= 1
                    /\ f.cat[1].limit + Cardinality(f.cat[1].skip_ids) = fin.limit
                    /\ Len(f.cat[1].items) <= f.cat[1].limit
                    /\ SeenIds(f.cat[1].items) \cap f.cat[1].skip_ids = {}
                    /\ SeenIds(f.cat[1].items) \subseteq f.cat[1].offered
                    /\ Len(f.combined) <= fin.limit ]_vars

\* The search source of pass 1 brought one product of two wanted, and the catalog
\* source, offered that product again with others, added one other product
C22_Witness ==
    /\ fout # << >> /\ fout[1].result # NULL
    /\ fin.limit = 2
    /\ fout[1].reqPasses = {1}
    /\ fout[1].cat # NULL
    /\ fout[1].cat[1].skip_ids = {1}
    /\ fout[1].cat[1].limit = 1
    /\ 1 \in fout[1].cat[1].offered
    /\ Len(fout[1].cat[1].items) = 1
    /\ Len(fout[1].result[1]) = 2

\* C23: when the failed check of a still-active track brings its error count to the
\* limit and the send of the pause notification fails, the track is deactivated all
\* the same with its error count raised by one, the other tracks of the session are
\* untouched and the cycle goes on with the tracks left; the commit of the cycle
\* persists the error count and the pause; a track whose row is paused is never
\* checked again by the worker, so the notification is not retried.
C23_PauseNotifyBestEffort ==
    [][ /\ (last'.op = "check" /\ last'.pauseFailed) =>
              LET t == last'.track
              IN  /\ last'.errBefore + 1 >= ERROR_LIMIT /\ last'.activeBefore
                  /\ ~sess'[t].is_active
                  /\ sess'[t].error_count = last'.errBefore + 1
                  /\ t \in dirty'
                  /\ pc' = "cycle"
                  /\ todo' = todo \ {t}
                  /\ \A o \in DOMAIN sess \ {t} : sess'[o] = sess[o]
        /\ last'.op = "commit" =>
              \A t \in dirty :
                  /\ tracks'[t].error_count = sess[t].error_count
                  /\ ~sess[t].is_active => ~tracks'[t].is_active
        /\ last'.op = "check" => tracks[last'.track].is_active
        /\ \A t \in Tracks : ~tracks[t].is_active => ~tracks'[t].is_active ]_vars

\* Track 1 has just been paused by its fifth failed check, the send of the pause
\* notification failed, and track 2 is still to be checked in the same cycle
C23_Witness ==
    /\ last.op = "check" /\ last.track = 1 /\ last.pauseFailed
    /\ pc = "cycle"
    /\ sess[1].error_count = ERROR_LIMIT /\ ~sess[1].is_active
    /\ tracks[1].is_active
    /\ todo = {2}

\* C24: every transient upstream error of a request (timeout, connection error,
\* status other than 200, malformed JSON) is retried, after a delay that grows
\* linearly, until 3 attempts have been made, and then the request yields no data;
\* the loop ends after at most 3 attempts and never raises.
C24_TransientErrorsRetried ==
    LET f == fout[1]
        n == Len(f.outcomes)
        transient == RaisingOutcomes \cup {"status_429", "status_500", "status_404"}
    IN  /\ n <= 3
        /\ ~f.raised
        /\ f.delays = [i \in 1..Len(f.delays) |-> RETRY_DELAY * i]
        /\ f.pc = "done" =>
              /\ n >= 1
              /\ f.result = IF f.outcomes[n] \in {"json_dict", "json_list"}
                            THEN Some("data") ELSE Some("none")
              /\ f.outcomes[n] \in transient => n = 3
        /\ f.pc = "attempt" =>
              /\ n < 3
              /\ \A i \in 1..n : f.outcomes[i] \in transient
              /\ Len(f.delays) = n

\* C25: in the web-search fallback at most 8 snapshot fetches are in flight at any
\* moment, although there are more candidate ids; a fetch that raises counts as a
\* missing snapshot and the other fetches go on to their end; the returned list is
\* sorted by price, has at most `limit` entries and is the same whatever the order
\* in which the fetches completed (the accepted snapshots by price, equal prices in
\* the order of the candidate ids).
C25_WebPoolBoundedDeterministic ==
    LET f == fout[1]
        n == Len(fin.fetches)
        accepted == { i \in 1..n : fin.fetches[i].res = "snap"
                                   /\ WebAccepted(fin, fin.fetches[i].snap) }
        price(i) == fin.fetches[i].snap.price[1]
        before(i, j) == price(i) < price(j) \/ (price(i) = price(j) /\ i < j)
        rank(i) == Cardinality({ j \in accepted : before(j, i) }) + 1
    IN  /\ Cardinality(InFlight(f)) <= 8
        /\ f.maxInFlight <= 8
        /\ \A i \in 1..n : f.status[i] = "done" =>
              f.loaded[i] = IF fin.fetches[i].res = "snap"
                            THEN Some(fin.fetches[i].snap) ELSE NULL
        /\ f.pc = "done" =>
              /\ \A i \in 1..n : f.status[i] = "done"
              /\ Len(f.result[1]) = Min(fin.limit, Cardinality(accepted))
              /\ \A k \in 1..Len(f.result[1]) :
                    \E i \in accepted : /\ rank(i) = k
                                        /\ f.result[1][k].wb_item_id = i
                                        /\ f.result[1][k].price = price(i)
              /\ \A k \in 1..(Len(f.result[1]) - 1) :
                    f.result[1][k].price <= f.result[1][k + 1].price

\* With 9 candidate ids 8 fetches were in flight at once, fetches raised, the
\* second of two equally priced products completed before the first, and the call
\* returned both in the order of their ids
C25_Witness ==
    /\ fout[1].pc = "done"
    /\ fout[1].maxInFlight = 8
    /\ fin.limit = 5
    /\ \E a, b \in 1..Len(fout[1].completed) :
          a < b /\ fout[1].completed[a] = 2 /\ fout[1].completed[b] = 1
    /\ Len(fout[1].result[1]) = 3
    /\ fout[1].result[1][2].wb_item_id = 1
    /\ fout[1].result[1][3].wb_item_id = 2

\* C26: under every interleaving of expire_pro_users with a successful payment, a
\* user whose committed pro_expires_at is in the future when the downgrade is
\* applied keeps plan pro and the pro check interval on their tracks.
C26_DowngradeOnlyExpired ==
    [][ (fout[1].exp.pc = "tracks_updated" /\ fout'[1].exp.pc = "done") =>
          \A u \in UserIds :
              (/\ fout[1].users[u].plan = "pro"
               /\ fout[1].users[u].pro_expires_at # NULL
               /\ fout[1].users[u].pro_expires_at[1] > PayNow)
              => /\ fout'[1].users[u].plan = "pro"
                 /\ fout'[1].interval[u] = PRO_INTERVAL_MIN ]_vars

\* C27: when the check of a track raises, the track's error_count grows by exactly
\* one, is_active changes only by being cleared at the threshold, and every other
\* field (last price, stock, quantity, sizes, last_checked_at, last_notified_at)
\* keeps its value from before the check; no alert row and no snapshot row of that
\* check stays in the transaction, and the commit of the cycle writes to the row of
\* such a track nothing but error_count and is_active.
C27_FailedCheckFrame ==
    [][ /\ (last'.op = "check" /\ last'.outcome = "failed") =>
              LET t == last'.track
                  norm(o) == [o EXCEPT !.error_count = 0, !.is_active = TRUE]
              IN  /\ sess'[t].error_count = sess[t].error_count + 1
                  /\ sess'[t].is_active # sess[t].is_active =>
                        /\ sess[t].is_active /\ ~sess'[t].is_active
                        /\ sess'[t].error_count >= ERROR_LIMIT
                  /\ norm(sess'[t]) = norm(sess[t])
                  /\ sessAlerts' = sessAlerts
                  /\ sessSnapshots' = sessSnapshots
                  /\ \A o \in DOMAIN sess \ {t} : sess'[o] = sess[o]
        /\ last'.op = "commit" =>
              \A t \in dirty : sess[t].error_count > 0 =>
                  /\ [tracks'[t] EXCEPT !.error_count = 0, !.is_active = TRUE]
                        = [tracks[t] EXCEPT !.error_count = 0, !.is_active = TRUE]
                  /\ \A a \in alerts' \ alerts : a.track_id # t ]_vars

\* The check of track 1 found two events, sent and logged the first, and the send of
\* the second raised: the track has its first error and nothing else of the check
C27_Witness ==
    /\ last.op = "check" /\ last.track = 1 /\ last.outcome = "failed"
    /\ last.cause = "send"
    /\ Len(last.events) = 2 /\ Len(last.sent) = 1
    /\ sess[1].error_count = 1 /\ sess[1].is_active
    /\ sess[1].last_notified_at = NULL
    /\ sess[1].last_price = Some(2000)
    /\ sessAlerts = {}
    /\ sessSnapshots = {}

\* C28 as stated: a check that raises or whose fetch returns no snapshot does not
\* advance last_checked_at, and the track (unless that check paused it) is selected
\* by the very next cycle, whatever its check interval.
C28_SelectedByNextCycle ==
    [][ /\ (last'.op = "check" /\ last'.outcome # "ok") =>
              sess'[last'.track].last_checked_at = sess[last'.track].last_checked_at
        /\ last'.op = "begin" => \A o \in fout[1] : o.track \in todo' ]_vars

\* C28, amended: a check that raises or whose fetch returns no snapshot does not
\* advance last_checked_at, and the track (unless that check paused it) is selected
\* by the very next cycle provided its check interval has not been raised since
\* that check; the downgrade of the track's user by the expiry pass between the two
\* cycles can raise it.
C28_SelectedUnlessIntervalRaised ==
    [][ /\ (last'.op = "check" /\ last'.outcome # "ok") =>
              sess'[last'.track].last_checked_at = sess[last'.track].last_checked_at
        /\ last'.op = "begin" =>
              \A o \in fout[1] :
                  tracks[o.track].check_interval_min <= o.interval => o.track \in todo' ]_vars

\* A cycle begins and selects track 1 once more: its checks have raised twice and
\* its last_checked_at is still the one of its creation
C28_Witness ==
    /\ last.op = "begin"
    /\ [track |-> 1, interval |-> FREE_INTERVAL_MIN] \in fout[1]
    /\ 1 \in todo
    /\ tracks[1].error_count = 2
    /\ tracks[1].last_checked_at = Some(0)

\* C29: the resume button changes only the active flag of the track's row and
\* leaves error_count as it is; so a track resumed after an error pause (error
\* count >= 5) is paused again, with another pause notification, by the first
\* failed check after the resume.
C29_ResumeKeepsErrorCount ==
    [][ /\ \A t \in Tracks :
              (userOps' = userOps + 1 /\ tracks'[t].is_active /\ ~tracks[t].is_active) =>
                  tracks'[t] = [tracks[t] EXCEPT !.is_active = TRUE]
        /\ ( /\ last'.op = "check" /\ last'.outcome = "failed"
             /\ last'.activeBefore /\ last'.errBefore >= ERROR_LIMIT ) =>
                  /\ ~sess'[last'.track].is_active
                  /\ sess'[last'.track].error_count = last'.errBefore + 1
                  /\ last'.pause = 1 ]_vars

\* C29 witness: track 1, paused with error count 5 and resumed by its user, fails
\* its next check and is paused again with a notification
C29_Witness ==
    /\ last.op = "check" /\ last.outcome = "failed" /\ last.track = 1
    /\ last.activeBefore /\ last.errBefore = ERROR_LIMIT
    /\ userOps >= 1
    /\ ~sess[1].is_active
    /\ sess[1].error_count = ERROR_LIMIT + 1
    /\ last.pause = 1

\* C30: for one user, feature and UTC day, under any interleaving of concurrent
\* try_consume calls, the number of calls that return allowed never exceeds
\* daily_limit, and once all calls have completed the stored counter equals the
\* number of allowed calls: every rejected call has taken back its own increment.
\* In between, the counter is the number of calls that have incremented and not
\* been rejected yet.
C30_UsageNeverExceedsLimit ==
    LET calls == fout[1].calls
        allowed == { i \in UsageCalls : calls[i].pc = "done" /\ calls[i].allowed }
        holding == { i \in UsageCalls : calls[i].pc \in {"expire", "check"} }
        willAllow == { i \in holding : calls[i].used_now <= fin.daily_limit }
    IN  /\ Cardinality(allowed) + Cardinality(willAllow) <= fin.daily_limit
        /\ KeyValue(fout[1].key) = Cardinality(allowed) + Cardinality(holding)
        /\ (\A i \in UsageCalls : calls[i].pc = "done") =>
              KeyValue(fout[1].key) = Cardinality(allowed)

\* C30 witness: four calls against a limit of 2 have completed, two allowed and two
\* rejected; one of the rejected calls read 4, so both rejected calls held their
\* increment at the same time; the key holds 2
C30_Witness ==
    /\ fin.daily_limit = 2
    /\ \A i \in UsageCalls : fout[1].calls[i].pc = "done"
    /\ Cardinality({ i \in UsageCalls : fout[1].calls[i].allowed }) = 2
    /\ \E i \in UsageCalls : ~fout[1].calls[i].allowed /\ fout[1].calls[i].used_now = 4
    /\ fout[1].key = Some(2)
    /\ fout[1].ttl

\* C31: when the reference has literal model tokens, passes 1, 2 and 3 reject every
\* candidate that carries none of them (neither among the model tokens of its text
\* nor among its normalised tokens) and pass 4 rejects none on this gate; when the
\* reference has no model tokens the gate rejects no candidate in any pass.
C31_ModelTokenGate ==
    fout # << >> =>
        LET g == fout[1]
            carries == \/ g.base_model_tokens \cap g.candidate_model_tokens # {}
                       \/ g.base_model_tokens \cap g.candidate_tokens # {}
        IN  /\ (g.base_model_tokens # {} /\ fin.pass \in 1..3) => (g.rejected <=> ~carries)
            /\ fin.pass = 4 => ~g.rejected
            /\ g.base_model_tokens = {} => ~g.rejected

\* C31 witness: the reference "... sa-15" against a candidate whose text holds
\* "sa-155" only: rejected in pass 3
C31_Witness ==
    /\ fout # << >>
    /\ fin.pass = 3
    /\ fout[1].base_model_tokens = {M_a15}
    /\ fout[1].candidate_model_tokens = {M_a155}
    /\ fout[1].rejected

\* C32: the detected gender is male iff some male-indicator token is present and no
\* female-indicator and no unisex token is, female symmetrically, and none
\* otherwise; the gender gate rejects a candidate only in pass 1 and only when both
\* detected genders are known and differ, so a candidate of unknown gender is never
\* rejected by it.
C32_GenderGate ==
    fout # << >> =>
        LET g == fout[1]
            male(ws) == \E w \in ws : IsMaleToken(w)
            female(ws) == \E w \in ws : IsFemaleToken(w)
            unisex(ws) == ws \cap GENDER_UNISEX_WORDS # {}
            Right(ws, d) ==
                /\ d = Some("male") <=> (male(ws) /\ ~female(ws) /\ ~unisex(ws))
                /\ d = Some("female") <=> (female(ws) /\ ~male(ws) /\ ~unisex(ws))
                /\ d \in {Some("male"), Some("female"), NULL}
        IN  /\ Right(fin.title, g.base_gender)
            /\ Right(fin.text, g.candidate_gender)
            /\ g.rejected <=> /\ fin.pass = 1
                              /\ g.base_gender # NULL /\ g.candidate_gender # NULL
                              /\ g.base_gender # g.candidate_gender
            /\ g.candidate_gender = NULL => ~g.rejected

\* C32 witness: pass 1, a reference with a male word, a candidate whose only gender
\* word is "женский": both genders are known and differ, and the gate rejects
C32_Witness ==
    /\ fout # << >>
    /\ fin.pass = 1
    /\ fin.title = {W_men, T_iphone}
    /\ fin.text = {W_zhenskij, T_pro}
    /\ fout[1].base_gender = Some("male")
    /\ fout[1].candidate_gender = Some("female")
    /\ fout[1].rejected

\* C33: a back-in-stock event is emitted iff stock-watch is enabled, the track's
\* previous in-stock state is explicitly false (an unknown previous state never
\* triggers it) and the new snapshot is in stock.
C33_BackInStock ==
    fout # << >> =>
        LET n == Cardinality(EventsOf(fout[1].events, "in_stock"))
        IN  /\ n = (IF fin.watch_stock /\ fin.last_in_stock = Some(FALSE) /\ fin.in_stock
                    THEN 1 ELSE 0)
            /\ fin.last_in_stock = NULL => n = 0

\* C33 witness: a watched track last seen out of stock, the product back in stock
C33_Witness ==
    /\ fout # << >>
    /\ fin.watch_stock /\ fin.last_in_stock = Some(FALSE) /\ fin.in_stock
    /\ \E i \in 1..Len(fout[1].events) : fout[1].events[i] = Msg("in_stock", << >>, << >>)

\* C34: a quantity-changed event is emitted iff the track's owner is on the premium
\* tier, quantity-watch is enabled, and the previous and new quantities are both
\* known and different; its direction is increase iff new > previous, otherwise
\* decrease, and it carries the old and the new quantity.
C34_QuantityChanged ==
    fout # << >> =>
        LET evs == fout[1].events
            qs == EventsOf(evs, "stock_changed")
            due == /\ fin.plan = "pro" /\ fin.watch_qty
                   /\ fin.last_qty # NULL /\ fin.total_qty # NULL
                   /\ fin.last_qty # fin.total_qty
        IN  /\ Cardinality(qs) = (IF due THEN 1 ELSE 0)
            /\ \A i \in qs :
                  /\ evs[i].nums = <<fin.last_qty, fin.total_qty>>
                  /\ evs[i].strs = << IF fin.total_qty[1] > fin.last_qty[1]
                                      THEN "up" ELSE "down" >>

\* C34 witness: a pro user's watched quantity falls from 5 to 3
C34_Witness ==
    /\ fout # << >>
    /\ fin.plan = "pro" /\ fin.watch_qty
    /\ fin.last_qty = Some(5) /\ fin.total_qty = Some(3)
    /\ \E i \in 1..Len(fout[1].events) :
          fout[1].events[i] = Msg("stock_changed", <<Some(5), Some(3)>>, <<"down">>)

\* C35: for every anchor token set, required_anchor_matches is 0 if the set is
\* empty, 2 if at least two anchor tokens contain a Latin letter or a digit or if
\* the set has at least 4 tokens, and 1 otherwise.
C35_RequiredAnchorMatches ==
    fout # << >> =>
        LET anchors == fin.anchor_tokens
            strong == { a \in anchors : \E i \in 1..Len(a) : a[i] \in LATIN \cup DIGITS }
        IN  /\ anchors = {} => fout[1] = 0
            /\ (anchors # {} /\ (Cardinality(strong) >= 2 \/ Cardinality(anchors) >= 4)) =>
                  fout[1] = 2
            /\ (anchors # {} /\ Cardinality(strong) < 2 /\ Cardinality(anchors) < 4) =>
                  fout[1] = 1

\* C35 witness: four Cyrillic anchors, none with a Latin letter or a digit, need
\* two matches
C35_Witness ==
    /\ fout # << >>
    /\ fin.anchor_tokens = {T_steklo, W_kino, W_stolik, W_moloko}
    /\ fout[1] = 2

\* C36: tokens_match is reflexive and symmetric: equal tokens always match; two
\* different tokens match iff, when either contains a Cyrillic letter, both have
\* length >= 6 and share their first 6 characters, and otherwise both have length
\* >= 4 and share their first 4 characters.
C36_TokensMatch ==
    fout # << >> =>
        LET l == fin.left
            r == fin.right
            cyr(w) == \E i \in 1..Len(w) : w[i] \in CYRILLIC
            share(n) == /\ Len(l) >= n /\ Len(r) >= n
                        /\ \A i \in 1..n : l[i] = r[i]
        IN  /\ l = r => fout[1].forth
            /\ fout[1].forth = fout[1].back
            /\ l # r => (fout[1].forth <=> IF cyr(l) \/ cyr(r) THEN share(6) ELSE share(4))

\* C36 witness: "case" and "case" followed by a Cyrillic letter share four
\* characters and do not match, in either order
C36_Witness ==
    /\ fout # << >>
    /\ fin.left = T_case /\ fin.right = W_case_l
    /\ ~fout[1].forth /\ ~fout[1].back

====
